---------------------------- MODULE Spec2Model ----------------------------
(***************************************************************************)
(* Pixel Office: the room synchronizer of the web client (the presence     *)
(* based hook and the WebSocket hook), the App component that drives it,   *)
(* the WebSocket relay server, and the office engine the hooks mutate.     *)
(*                                                                         *)
(* The repository holds several programs.  A behaviour of Spec runs one    *)
(* of them, chosen by Init in the variable `program`:                      *)
(*   "presence"  the client built with the presence/broadcast hook         *)
(*   "ws"        the client built with the WebSocket hook                  *)
(*   "relay"     the WebSocket relay server                                *)
(* SpecMove and SpecBroadcast run the presence client with the movement    *)
(* handlers and with the position broadcast loop.                          *)
(*                                                                         *)
(* The engine (office/engine/officeState) is not among the sources; its    *)
(* operations are modelled from the design document, under the names the   *)
(* hooks call them by.                                                     *)
(***************************************************************************)
EXTENDS Integers, Sequences, FiniteSets, TLC

VARIABLES
    program,            \* which program of the repository this behaviour runs
    \* ---- App component (client) ----
    screen,             \* App: 'lobby' | 'connecting' | 'office'
    myStatus,           \* App: status shown on the toolbar button
    error,              \* App: useState error, shown on the connecting screen
    \* ---- engine ----
    characters,         \* OfficeState.characters: id -> Character
    tileMap,            \* OfficeState's tile map, built from the layout
    \* ---- hook state (both hooks) ----
    players,            \* useState players: sequence of PlayerInfo
    roomId,             \* useState roomId
    myPlayerId,         \* useState myPlayerId
    connected,          \* useState connected
    \* ---- presence hook ----
    channel,            \* channelRef.current: NoRoom or the room code of
                        \* the channel
    liveChannels,       \* realtime service: room code -> the ids of the
                        \* participants tracked on its channel
    myInfo,             \* myInfoRef.current: NoInfo or [id, status, seatId]
    subInfo,            \* the myInfo captured by the handlers of subscribeToRoom
    tracking,           \* SUBSCRIBED callback suspended at `await channel.track`
    lastBroadcastPos,   \* lastBroadcastPos.current
    lastBroadcastTime,  \* lastBroadcastTime.current
    now,                \* Date.now()
    emitted,            \* position events handed to channel.send, oldest first
    \* ---- a peer in the room of the presence client ----
    peerChars,          \* the peer's OfficeState.characters
    delivered,          \* how many of the emitted events the peer has handled
    \* ---- WsClient in detail, and the browser's sockets and timers ----
    wsRef,              \* WsClient.ws: 0 (null) or the number of a socket
    sockets,            \* the WebSocket objects created so far, by number:
                        \* readyState "connecting" | "open" | "closing" |
                        \* "closed"
    pingTimer,          \* WsClient.pingTimer holds a live interval
    otherPings,         \* live ping intervals that no field refers to
    reconnectTimer,     \* WsClient.reconnectTimer holds a pending timeout
    otherReconnects,    \* pending reconnect timeouts no field refers to
    pendingMessages,    \* WsClient.pendingMessages
    construction,       \* whether `new WebSocket(WS_URL)` throws here
    submitted,          \* messages given to send() while not connected,
                        \* since the connection last opened
    \* ---- extension host: agents, timers, transcript files ----
    agents,             \* agents: agentId -> AgentState
    waitingTimers,      \* waitingTimers: the agents that have an entry
    waitingOthers,      \* agentId -> pending waiting timeouts not in the map
    permissionTimers,   \* permissionTimers: the agents that have an entry
    permissionOthers,   \* agentId -> pending permission timeouts not in the map
    fileWatchers,       \* fileWatchers: agentId -> file its watcher watches
    otherWatchers,      \* open watchers not in the map, as [agent, file]
    pollingTimers,      \* pollingTimers: agentId -> its interval is live
    otherPollers,       \* agentId -> live polling intervals not in the map
    files,              \* the project directory: file name -> its bytes
    processed,          \* agentId -> the lines given to processTranscriptLine
                        \* since the agent was given its file
    knownJsonlFiles,    \* knownJsonlFiles
    projectScanTimer,   \* projectScanTimerRef.current holds a live interval
    otherScans,         \* live scan intervals the ref does not hold
    activeAgentId,      \* activeAgentIdRef.current, 0 for null
    reassignments,      \* the reassignments the scan has made, in order
    atFirstRun,         \* the files that existed when ensureProjectScan
                        \* first ran
    \* ---- WsClient ----
    sock,               \* WsClient.ws: "null" | "connecting" | "open"
    shouldReconnect,    \* WsClient.shouldReconnect
    joinCheck,          \* WebSocket hook: the interval `check` that waits to
                        \* send the join: "none" | "waiting" | "sent" | "expired"
    \* ---- relay ----
    rooms,              \* RoomManager.rooms: roomId -> Room
    wsToRoom,           \* RoomManager.wsToRoom: socket -> roomId
    conns,              \* sockets whose connection is open
    \* ---- observation ----
    outbox,             \* messages the last step handed to the transport
    thrown,             \* an exception escaped a handler
    last                \* the step taken last, with its input

vars == << program, tileMap, screen, myStatus, error, characters, players, roomId, myPlayerId,
           connected, channel, liveChannels, myInfo, subInfo, tracking,
           lastBroadcastPos,
           lastBroadcastTime, now, emitted, peerChars, delivered, wsRef,
           sockets, pingTimer, otherPings, reconnectTimer, otherReconnects,
           pendingMessages, construction, submitted,
           agents, waitingTimers, waitingOthers, permissionTimers,
           permissionOthers, fileWatchers, otherWatchers, pollingTimers,
           otherPollers, files, processed, knownJsonlFiles, projectScanTimer,
           otherScans, activeAgentId, reassignments, atFirstRun, sock,
           shouldReconnect, joinCheck,
           rooms,
           wsToRoom, conns, outbox, thrown, last >>

appVars      == << screen, myStatus, error >>
hookVars     == << players, roomId, myPlayerId, connected >>
presenceVars == << channel, liveChannels, myInfo, subInfo, tracking >>
loopVars     == << lastBroadcastPos, lastBroadcastTime, now, emitted >>
peerVars     == << peerChars, delivered >>
clientVars   == << wsRef, sockets, pingTimer, otherPings, reconnectTimer,
                   otherReconnects, pendingMessages, construction, submitted >>
timerVars    == << waitingTimers, waitingOthers, permissionTimers,
                   permissionOthers >>
watchVars    == << fileWatchers, otherWatchers, pollingTimers, otherPollers >>
scanVars     == << knownJsonlFiles, projectScanTimer, otherScans,
                   activeAgentId, reassignments, atFirstRun >>
extVars      == << agents, timerVars, watchVars, files, processed, scanVars >>
hostVars     == << clientVars, extVars >>
wsVars       == << sock, shouldReconnect, joinCheck >>
relayVars    == << rooms, wsToRoom, conns >>

-----------------------------------------------------------------------------
(* Bounds of the model *)

MaxId       == 3    \* participant ids are 1..MaxId
MaxLocalId  == 1    \* generatePlayerId draws from 1..MaxLocalId
MaxPlayers  == 3    \* the WebSocket hook's player list is not grown past this
MaxEventId  == 2    \* status and seat events are about ids 1..MaxEventId
MaxJoins    == 2    \* a relay room hands out the ids 1..MaxJoins
Cols        == 14   \* tile map width
Rows        == 3    \* tile map height
MaxNow      == 700  \* the clock stops at MaxNow ms
MaxSockets  == 3    \* WebSocket objects one behaviour constructs
MaxOthers   == 2    \* live timers of one kind that no field refers to
MaxPending  == 2    \* messages submitted between two opens
MaxAgentId  == 2    \* agents of the extension host are 1..MaxAgentId
MaxFileLen  == 4    \* bytes a transcript file grows to
MaxLineLen  == 2    \* bytes a file grows to where only whole lines matter
MaxOrphans  == 1    \* timers or watchers of one agent that no map holds
MaxActiveTools == 2 \* tools active at a time, over all agents
AgentIds    == 1..MaxAgentId

Ids      == 1..MaxId
EventIds == 1..MaxEventId
LocalIds == 1..MaxLocalId

(* Program constants *)

TELEPORT_DIST                  == 10
POSITION_BROADCAST_INTERVAL_MS == 200

\* `chars` of generateRoomId and generateRoomCode, and the length of a code
ROOM_CODE_CHARS ==
    << "A", "B", "C", "D", "E", "F", "G", "H", "J", "K", "L", "M", "N", "P",
       "Q", "R", "S", "T", "U", "V", "W", "X", "Y", "Z", "2", "3", "4", "5",
       "6", "7", "8", "9" >>
ROOM_CODE_LEN == 6

Null == "null"

\* no room: a room code is the tuple of its characters
NoRoom == << >>

PlayerStatus == {"coding", "reading", "idle", "afk"}

-----------------------------------------------------------------------------
(* Tile map *)

Cells == (0..(Cols - 1)) \X (0..(Rows - 1))

\* the desk of seat "desk-1" and the walls that cut off cell <<5,0>>
Desk1    == <<1, 1>>
Chair1   == <<1, 0>>
WallCell == <<4, 0>>
Blocked  == {Desk1, WallCell, <<6, 0>>, <<5, 1>>}
Isolated == <<5, 0>>
SpawnCell == <<0, 0>>

NoCell == <<-1, -1>>

\* seatAnchorCell: the chair cell of a seat, NoCell for an unknown seat
SeatIds == {"desk-1"}
seatChair(seatId) == IF seatId = "desk-1" THEN Chair1 ELSE NoCell

\* a tile map is [cols, rows, blocked, chairs]; TileMap is the one built
\* from the layout of the office
NoChairs == [s \in {} |-> NoCell]

TileMap == [cols |-> Cols, rows |-> Rows, blocked |-> Blocked,
            chairs |-> [s \in SeatIds |-> Chair1]]

\* seatAnchorCell: the chair cell of a seat of map m, or none
seatChairOn(m, seatId) ==
    IF seatId \in DOMAIN m.chairs THEN m.chairs[seatId] ELSE NoCell

cellsOf(m) == (0..(m.cols - 1)) \X (0..(m.rows - 1))

walkableIn(m, c) == c \in cellsOf(m) /\ c \notin m.blocked

\* a variant that steps onto obstacles
neighborsThroughWalls(m, c) ==
    SelectSeq(<< <<c[1], c[2] - 1>>, <<c[1], c[2] + 1>>,
                 <<c[1] - 1, c[2]>>, <<c[1] + 1, c[2]>> >>,
              LAMBDA n : n \in cellsOf(m))

\* the up-to-4 orthogonal walkable neighbours, in a fixed order
neighborsIn(m, c) ==
    SelectSeq(<< <<c[1], c[2] - 1>>, <<c[1], c[2] + 1>>,
                 <<c[1] - 1, c[2]>>, <<c[1] + 1, c[2]>> >>,
              LAMBDA n : walkableIn(m, n))

isWalkable(c) == walkableIn(TileMap, c)

neighbors(c) == neighborsIn(TileMap, c)

Abs(x) == IF x < 0 THEN -x ELSE x
Manhattan(a, b) == Abs(a[1] - b[1]) + Abs(a[2] - b[2])


-----------------------------------------------------------------------------
(* Pathfinder: breadth-first search over the 4-connected walkable cells *)

Range(q) == {q[i] : i \in DOMAIN q}

\* variants of the search: one that explores depth first, one that only
\* skips the cells it has already dequeued
RECURSIVE bfsLoopDepthFirst(_, _, _, _, _)
bfsLoopDepthFirst(m, queue, pred, goal, dequeued) ==
    IF queue = <<>> THEN [pred |-> pred, dequeued |-> dequeued]
    ELSE LET cur == Head(queue)
             seen == Append(dequeued, cur)
         IN  IF cur = goal THEN [pred |-> pred, dequeued |-> seen]
             ELSE LET fresh == SelectSeq(neighborsIn(m, cur),
                                         LAMBDA n : n \notin DOMAIN pred)
                      pred2 == pred @@ [n \in Range(fresh) |-> cur]
                  IN  bfsLoopDepthFirst(m, fresh \o Tail(queue), pred2, goal,
                                        seen)

RECURSIVE bfsLoopRevisiting(_, _, _, _, _)
bfsLoopRevisiting(m, queue, pred, goal, dequeued) ==
    IF queue = <<>> THEN [pred |-> pred, dequeued |-> dequeued]
    ELSE LET cur == Head(queue)
             seen == Append(dequeued, cur)
         IN  IF cur = goal THEN [pred |-> pred, dequeued |-> seen]
             ELSE LET fresh == SelectSeq(neighborsIn(m, cur),
                                         LAMBDA n : n \notin Range(seen))
                      pred2 == pred @@ [n \in Range(fresh) |-> cur]
                  IN  bfsLoopRevisiting(m, Tail(queue) \o fresh, pred2, goal,
                                        seen)

\* the search on map m: the frontier queue, the predecessor map and the
\* cells dequeued so far; it ends on the first dequeue of the goal
RECURSIVE bfsLoop(_, _, _, _, _)
bfsLoop(m, queue, pred, goal, dequeued) ==
    IF queue = <<>> THEN [pred |-> pred, dequeued |-> dequeued]
    ELSE LET cur == Head(queue)
             seen == Append(dequeued, cur)
         IN  IF cur = goal THEN [pred |-> pred, dequeued |-> seen]
             ELSE LET fresh == SelectSeq(neighborsIn(m, cur),
                                         LAMBDA n : n \notin DOMAIN pred)
                      pred2 == pred @@ [n \in Range(fresh) |-> cur]
                  IN  bfsLoop(m, Tail(queue) \o fresh, pred2, goal, seen)

RECURSIVE walkBack(_, _, _)
walkBack(pred, from, c) ==
    IF c = from THEN <<>> ELSE Append(walkBack(pred, from, pred[c]), c)

\* found = FALSE is the `none` of the design; the path leaves out `from`;
\* dequeued is the order in which the search took cells off its queue
bfsPath(m, from, to) ==
    IF from = to THEN [found |-> TRUE, path |-> <<>>, dequeued |-> <<>>]
    ELSE LET r == bfsLoop(m, <<from>>, [n \in {from} |-> from], to, <<>>)
         IN  IF to \in DOMAIN r.pred
             THEN [found |-> TRUE, path |-> walkBack(r.pred, from, to),
                   dequeued |-> r.dequeued]
             ELSE [found |-> FALSE, path |-> <<>>, dequeued |-> r.dequeued]

\* the cells in row-major order, and the table of the paths between them,
\* computed once
cellIndex(c) == c[1] * Rows + c[2] + 1
cellAt(i) == << (i - 1) \div Rows, (i - 1) % Rows >>

RECURSIVE pathRow(_, _, _)
pathRow(from, lo, hi) ==
    IF lo > hi THEN <<>>
    ELSE IF lo = hi THEN << bfsPath(TileMap, from, cellAt(lo)) >>
    ELSE LET mid == (lo + hi) \div 2
         IN  pathRow(from, lo, mid) \o pathRow(from, mid + 1, hi)

RECURSIVE pathRows(_, _)
pathRows(lo, hi) ==
    IF lo > hi THEN <<>>
    ELSE IF lo = hi THEN << pathRow(cellAt(lo), 1, Cols * Rows) >>
    ELSE LET mid == (lo + hi) \div 2
         IN  pathRows(lo, mid) \o pathRows(mid + 1, hi)

PathTable == pathRows(1, Cols * Rows)

findPath(from, to) ==
    IF from \in Cells /\ to \in Cells
    THEN PathTable[cellIndex(from)][cellIndex(to)]
    ELSE bfsPath(TileMap, from, to)

-----------------------------------------------------------------------------
(* Office state engine.  Every operation takes the character map and       *)
(* returns the new one.                                                    *)

\* the state a character that is not walking rests in
restState(seatId, isActive) ==
    IF seatId = Null THEN "idle"
    ELSE IF isActive THEN "sitting-active" ELSE "sitting-idle"

newCharacterOn(m, seatId, isLocal) ==
    LET chair == seatChairOn(m, seatId)
        cell  == IF seatId # Null /\ chair # NoCell THEN chair ELSE SpawnCell
    IN  [ tile              |-> cell,
          path              |-> <<>>,
          state             |-> restState(seatId, FALSE),
          isActive          |-> FALSE,
          currentTool       |-> Null,
          seatId            |-> seatId,
          isLocal           |-> isLocal,
          remoteControlled  |-> FALSE,
          bubbleType        |-> Null ]

newCharacter(seatId, isLocal) == newCharacterOn(TileMap, seatId, isLocal)

put(chars, id, ch) ==
    [i \in DOMAIN chars \cup {id} |-> IF i = id THEN ch ELSE chars[i]]

\* a variant that builds the character anew when the id is present
addAgentReplacing(chars, id, seatId, isLocal) ==
    put(chars, id, newCharacter(seatId, isLocal))

\* addCharacter: no-op if the id is already present
addAgent(chars, id, seatId, isLocal) ==
    IF id \in DOMAIN chars THEN chars
    ELSE put(chars, id, newCharacter(seatId, isLocal))

\* removeCharacter: no-op if absent
removeAgent(chars, id) ==
    [i \in DOMAIN chars \ {id} |-> chars[i]]

setRemoteControlled(chars, id, flag) ==
    IF id \notin DOMAIN chars THEN chars
    ELSE [chars EXCEPT ![id].remoteControlled = flag]

\* setStatus, first half: the activity flag; a seated character's sub-state
\* follows it
setAgentActive(chars, id, active) ==
    IF id \notin DOMAIN chars THEN chars
    ELSE [chars EXCEPT ![id].isActive = active,
                       ![id].state = IF @ \in {"sitting-idle", "sitting-active"}
                                     THEN restState(chars[id].seatId, active)
                                     ELSE @]

\* setStatus, second half: the tool shown while active
setAgentTool(chars, id, tool) ==
    IF id \notin DOMAIN chars THEN chars
    ELSE [chars EXCEPT ![id].currentTool = tool]

showWaitingBubble(chars, id) ==
    IF id \notin DOMAIN chars THEN chars
    ELSE [chars EXCEPT ![id].bubbleType = "waiting"]

\* teleportTo: sets the tile and clears the queued path
teleportToTile(chars, id, cell) ==
    IF id \notin DOMAIN chars THEN chars
    ELSE [chars EXCEPT ![id].tile = cell,
                       ![id].path = <<>>,
                       ![id].state = IF @ = "walking"
                                     THEN restState(chars[id].seatId,
                                                    chars[id].isActive)
                                     ELSE @]

\* the pathfinder on map m; the office's own map answers from its table
findPathOn(m, from, to) ==
    IF m = TileMap THEN findPath(from, to) ELSE bfsPath(m, from, to)

\* moveTo on map m: a no-op when the target is unreachable or is the
\* current cell
walkToTileOn(m, chars, id, cell) ==
    IF id \notin DOMAIN chars THEN chars
    ELSE LET p == findPathOn(m, chars[id].tile, cell)
         IN  IF ~p.found \/ p.path = <<>> THEN chars
             ELSE [chars EXCEPT ![id].path = p.path, ![id].state = "walking"]

walkToTile(chars, id, cell) == walkToTileOn(TileMap, chars, id, cell)

\* a variant that binds the seat and issues no path
reassignSeatBindOnly(m, chars, id, seatId) ==
    IF id \notin DOMAIN chars THEN chars
    ELSE [chars EXCEPT ![id].seatId = seatId]

\* setSeat on map m: clears the old binding, assigns the new one, and issues
\* a path to the seat's chair cell
reassignSeatOn(m, chars, id, seatId) ==
    IF id \notin DOMAIN chars THEN chars
    ELSE LET chair  == seatChairOn(m, seatId)
             bound  == [chars EXCEPT ![id].seatId = seatId]
             p      == IF chair = NoCell THEN [found |-> FALSE, path |-> <<>>]
                       ELSE findPathOn(m, chars[id].tile, chair)
         IN  IF p.found
             THEN [bound EXCEPT ![id].path = p.path,
                                ![id].state =
                                    IF p.path # <<>> THEN "walking"
                                    ELSE restState(seatId, bound[id].isActive)]
             ELSE bound

reassignSeat(chars, id, seatId) == reassignSeatOn(TileMap, chars, id, seatId)

\* autonomous idle behaviour: an idle character that is not remote-controlled
\* picks a cell and walks there
wander(m, chars, id, cell) ==
    IF id \notin DOMAIN chars THEN chars
    ELSE IF chars[id].remoteControlled \/ chars[id].state # "idle" THEN chars
    ELSE walkToTileOn(m, chars, id, cell)

\* a queued path is valid in map m when each of its cells is walkable in m
validPath(m, path) == \A k \in DOMAIN path : walkableIn(m, path[k])

\* what rebuildFromLayout does to one character whose queued path is no
\* longer valid: a new path to the same target if there is one, else none
repath(m, ch) ==
    LET p == findPathOn(m, ch.tile, ch.path[Len(ch.path)])
    IN  IF p.found /\ p.path # <<>>
        THEN [ch EXCEPT !.path = p.path, !.state = "walking"]
        ELSE [ch EXCEPT !.path = <<>>,
                        !.state = restState(ch.seatId, ch.isActive)]

\* a variant that keeps every queued path as it is
rebuildKeepingPaths(chars, m) == chars

\* rebuildFromLayout, the characters' side: the tile map is replaced by m and
\* the queued paths that are invalid in m are reassigned or cleared
rebuildFromLayout(chars, m) ==
    [i \in DOMAIN chars |->
        IF validPath(m, chars[i].path) THEN chars[i] ELSE repath(m, chars[i])]

\* a variant that drops the cell after the one it steps onto
stepCharacterSkipping(ch) ==
    IF ch.path = <<>> THEN ch
    ELSE LET rest == IF Len(ch.path) > 1 THEN Tail(Tail(ch.path)) ELSE <<>>
         IN  [ch EXCEPT !.tile = Head(ch.path),
                        !.path = rest,
                        !.state = IF rest = <<>>
                                  THEN restState(ch.seatId, ch.isActive)
                                  ELSE "walking"]

\* one character completes the step to the next queued cell
stepCharacter(ch) ==
    IF ch.path = <<>> THEN ch
    ELSE LET rest == Tail(ch.path)
         IN  [ch EXCEPT !.tile = Head(ch.path),
                        !.path = rest,
                        !.state = IF rest = <<>>
                                  THEN restState(ch.seatId, ch.isActive)
                                  ELSE "walking"]

\* tick: the characters in `arrive` reach their next queued cell in this frame
tick(chars, arrive) ==
    [i \in DOMAIN chars |-> IF i \in arrive THEN stepCharacter(chars[i])
                            ELSE chars[i]]


-----------------------------------------------------------------------------
(* Both hooks *)

statusToTool(status) ==
    CASE status = "coding"  -> "Edit"
      [] status = "reading" -> "Read"
      [] OTHER              -> Null

\* a variant that takes reading for rest
statusToActiveCodingOnly(status) == status = "coding"

statusToActive(status) == status \in {"coding", "reading"}

\* the ids of a set in ascending order, the order in which Object.values
\* walks an object whose keys are integers
RECURSIVE ascending(_)
ascending(S) ==
    IF S = {} THEN <<>>
    ELSE LET m == CHOOSE x \in S : \A y \in S : x <= y
         IN  <<m>> \o ascending(S \ {m})

playerIds(list) == {list[i].id : i \in DOMAIN list}

\* prev.map(p => p.id === id ? { ...p, status } : p)
mapStatus(list, id, status) ==
    [i \in DOMAIN list |->
        IF list[i].id = id THEN [list[i] EXCEPT !.status = status] ELSE list[i]]

\* prev.map(p => p.id === id ? { ...p, seatId } : p)
mapSeat(list, id, seatId) ==
    [i \in DOMAIN list |->
        IF list[i].id = id THEN [list[i] EXCEPT !.seatId = seatId] ELSE list[i]]

NoInfo == [id |-> 0, status |-> "idle", seatId |-> Null]
\* the observation of a step: the operation, the id, status, cell, socket and
\* id set of its input, the ids tracked before it, and whether it repeats the
\* event of the step before
NoLast == [op |-> "init", id |-> 0, status |-> Null, cell |-> NoCell,
           ids |-> {}, before |-> {}, ws |-> Null, again |-> FALSE,
           room |-> NoRoom,
           grid |-> TileMap, from |-> NoCell, found |-> FALSE,
           path |-> <<>>, dequeued |-> <<>>]

-----------------------------------------------------------------------------
(* Presence hook: the handlers subscribeToRoom registers.  `me` is the id  *)
(* of the myInfo the handlers closed over.                                 *)

\* generateRoomCode: draws[i] is Math.floor(Math.random() * chars.length)
\* of the i-th round of the loop
generateRoomCode(draws) ==
    [i \in 1..ROOM_CODE_LEN |-> ROOM_CODE_CHARS[draws[i] + 1]]

\* the payloads of the presence state that have at least one presence
presentKeys(state) == {k \in DOMAIN state : Len(state[k]) > 0}

\* allPlayers of the sync handler
allPlayersOf(state) ==
    LET ks == ascending(presentKeys(state))
    IN  [i \in DOMAIN ks |->
            [id     |-> state[ks[i]][1].id,
             status |-> state[ks[i]][1].status,
             seatId |-> state[ks[i]][1].seatId]]

\* the loop body without the test that the id is not tracked yet
syncAddOneAlways(chars, currentIds, me, p) ==
    LET isMe == (p.id = me)
        c1 == addAgent(chars, p.id, p.seatId, isMe)
        c2 == IF isMe THEN c1
              ELSE LET r == setRemoteControlled(c1, p.id, TRUE)
                   IN  IF p.tile # NoCell
                       THEN teleportToTile(r, p.id, p.tile)
                       ELSE r
    IN  IF statusToActive(p.status)
        THEN setAgentTool(setAgentActive(c2, p.id, TRUE), p.id,
                          statusToTool(p.status))
        ELSE c2

\* the loop body without the call that marks a peer's character
syncAddOneUnmarked(chars, currentIds, me, p) ==
    IF p.id \in currentIds THEN chars
    ELSE LET isMe == (p.id = me)
             c1 == addAgent(chars, p.id, p.seatId, isMe)
             c2 == IF isMe \/ p.tile = NoCell THEN c1
                   ELSE teleportToTile(c1, p.id, p.tile)
         IN  IF statusToActive(p.status)
             THEN setAgentTool(setAgentActive(c2, p.id, TRUE), p.id,
                               statusToTool(p.status))
             ELSE c2

\* body of the `Add new characters` loop for one presence
syncAddOne(chars, currentIds, me, p) ==
    IF p.id \in currentIds THEN chars
    ELSE LET isMe == (p.id = me)
             c1 == addAgent(chars, p.id, p.seatId, isMe)
             c2 == IF isMe THEN c1
                   ELSE LET r == setRemoteControlled(c1, p.id, TRUE)
                        IN  IF p.tile # NoCell
                            THEN teleportToTile(r, p.id, p.tile)
                            ELSE r
         IN  IF statusToActive(p.status)
             THEN setAgentTool(setAgentActive(c2, p.id, TRUE), p.id,
                               statusToTool(p.status))
             ELSE c2

RECURSIVE syncAddLoop(_, _, _, _, _)
syncAddLoop(chars, currentIds, me, state, keys) ==
    IF keys = <<>> THEN chars
    ELSE syncAddLoop(syncAddOne(chars, currentIds, me, state[Head(keys)][1]),
                     currentIds, me, state, Tail(keys))

\* variants of the removal test: one that spares nobody's absence, one that
\* does not spare the local participant
syncRemoveNever(id, presenceIds, me) == FALSE
syncRemoveAbsent(id, presenceIds, me) == id \notin presenceIds

\* `Remove departed characters (but keep my own)`
syncRemoveGuard(id, presenceIds, me) == id \notin presenceIds /\ id # me

RECURSIVE syncRemoveLoop(_, _, _, _)
syncRemoveLoop(chars, ids, presenceIds, me) ==
    IF ids = <<>> THEN chars
    ELSE syncRemoveLoop(IF syncRemoveGuard(Head(ids), presenceIds, me)
                        THEN removeAgent(chars, Head(ids)) ELSE chars,
                        Tail(ids), presenceIds, me)

\* the presence `sync` handler, on the engine
presenceSync(chars, me, state) ==
    LET currentIds  == DOMAIN chars
        presenceIds == playerIds(allPlayersOf(state))
        added == syncAddLoop(chars, currentIds, me, state,
                             ascending(presentKeys(state)))
    IN  syncRemoveLoop(added, ascending(currentIds), presenceIds, me)

\* the status handler without the test for the own id
presenceStatusAll(chars, me, playerId, status) ==
    LET c1 == setAgentActive(chars, playerId, statusToActive(status))
        c2 == setAgentTool(c1, playerId, statusToTool(status))
    IN  IF status = "afk" THEN showWaitingBubble(c2, playerId) ELSE c2

\* the broadcast `status` handler
presenceStatus(chars, me, playerId, status) ==
    IF playerId = me THEN chars
    ELSE LET c1 == setAgentActive(chars, playerId, statusToActive(status))
             c2 == setAgentTool(c1, playerId, statusToTool(status))
         IN  IF status = "afk" THEN showWaitingBubble(c2, playerId) ELSE c2

\* a move handler that places a character it does not know
presenceMoveUnknown(chars, me, playerId, cell) ==
    IF playerId = me THEN chars
    ELSE teleportToTile(addAgent(chars, playerId, Null, FALSE), playerId, cell)

\* a move handler whose threshold is on the far side of every map
presenceMoveWalkOnly(chars, me, playerId, cell) ==
    IF playerId = me \/ playerId \notin DOMAIN chars THEN chars
    ELSE walkToTile(chars, playerId, cell)

\* a move handler whose teleport leaves the queued path in place
presenceMoveKeepingPath(chars, me, playerId, cell) ==
    IF playerId = me \/ playerId \notin DOMAIN chars THEN chars
    ELSE LET dist == Manhattan(chars[playerId].tile, cell)
         IN  IF dist > TELEPORT_DIST
             THEN [chars EXCEPT ![playerId].tile = cell]
             ELSE IF dist > 0 THEN walkToTile(chars, playerId, cell)
             ELSE chars

\* a move handler that places the character on a target it cannot walk to
presenceMoveJumping(chars, me, playerId, cell) ==
    IF playerId = me \/ playerId \notin DOMAIN chars THEN chars
    ELSE IF Manhattan(chars[playerId].tile, cell) > TELEPORT_DIST
            \/ ~findPath(chars[playerId].tile, cell).found
    THEN teleportToTile(chars, playerId, cell)
    ELSE walkToTile(chars, playerId, cell)

\* the broadcast `move` handler
presenceMove(chars, me, playerId, cell) ==
    IF playerId = me THEN chars
    ELSE IF playerId \notin DOMAIN chars THEN chars
    ELSE LET dist == Manhattan(chars[playerId].tile, cell)
         IN  IF dist > TELEPORT_DIST THEN teleportToTile(chars, playerId, cell)
             ELSE IF dist > 0 THEN walkToTile(chars, playerId, cell)
             ELSE chars

\* the test without the throttle
broadcastOnChange(tile, lastPos, lastTime, t) == tile # lastPos

\* the test of the position broadcast loop
broadcastDue(tile, lastPos, lastTime, t) ==
    tile # lastPos /\ t - lastTime >= POSITION_BROADCAST_INTERVAL_MS

\* one frame of the position broadcast loop, on
\* loop = [pos, time, sent]; sent is what the frame hands to channel.send
broadcastFrame(loop, chan, info, chars, t) ==
    IF chan = NoRoom \/ info = NoInfo \/ info.id \notin DOMAIN chars
    THEN [loop EXCEPT !.sent = <<>>]
    ELSE LET tile == chars[info.id].tile
         IN  IF broadcastDue(tile, loop.pos, loop.time, t)
             THEN [pos  |-> tile,
                   time |-> t,
                   sent |-> << [type |-> "move", id |-> info.id,
                                tile |-> tile] >>]
             ELSE [loop EXCEPT !.sent = <<>>]

\* the presence payload channel.track is given
trackPayload(info, chars) ==
    [type   |-> "track", id |-> info.id, status |-> info.status,
     seatId |-> info.seatId,
     tile   |-> IF info.id \in DOMAIN chars THEN chars[info.id].tile
                ELSE <<0, 0>>]


-----------------------------------------------------------------------------
(* WebSocket hook: the handler given to wsClient.setOnMessage.  It works   *)
(* on st = [chars, players, roomId, myPlayerId].                           *)

NoMsg == [type |-> "none", roomId |-> NoRoom, playerId |-> 0, players |-> <<>>,
          player |-> NoInfo, status |-> Null, seatId |-> Null,
          characterIndex |-> 0]

\* body of the roomJoined loop for one player
roomJoinedAddOne(chars, p) ==
    IF p.id \in DOMAIN chars THEN chars
    ELSE LET c1 == addAgent(chars, p.id, p.seatId, TRUE)
         IN  IF statusToActive(p.status)
             THEN setAgentTool(setAgentActive(c1, p.id, TRUE), p.id,
                               statusToTool(p.status))
             ELSE c1

RECURSIVE roomJoinedLoop(_, _)
roomJoinedLoop(chars, list) ==
    IF list = <<>> THEN chars
    ELSE roomJoinedLoop(roomJoinedAddOne(chars, Head(list)), Tail(list))

onRoomJoined(st, msg) ==
    [st EXCEPT !.roomId = msg.roomId,
               !.myPlayerId = msg.playerId,
               !.players = msg.players,
               !.chars = roomJoinedLoop(st.chars, msg.players)]

onPlayerJoined(st, msg) ==
    [st EXCEPT !.players = Append(@, msg.player),
               !.chars = addAgent(@, msg.player.id, msg.player.seatId, FALSE)]

onPlayerLeft(st, msg) ==
    [st EXCEPT !.players = SelectSeq(@, LAMBDA p : p.id # msg.playerId),
               !.chars = removeAgent(@, msg.playerId)]

\* a status case that files the event as a new entry of the player list
onPlayerStatusAppended(st, msg) ==
    [st EXCEPT !.players = Append(@, [id |-> msg.playerId,
                                      status |-> msg.status,
                                      seatId |-> Null])]

onPlayerStatusChanged(st, msg) ==
    LET c1 == setAgentActive(st.chars, msg.playerId, statusToActive(msg.status))
        c2 == setAgentTool(c1, msg.playerId, statusToTool(msg.status))
    IN  [st EXCEPT !.players = mapStatus(@, msg.playerId, msg.status),
                   !.chars = IF msg.status = "afk"
                             THEN showWaitingBubble(c2, msg.playerId) ELSE c2]

onPlayerSeatChanged(st, msg) ==
    [st EXCEPT !.players = mapSeat(@, msg.playerId, msg.seatId),
               !.chars = reassignSeat(@, msg.playerId, msg.seatId)]

\* the switch on msg.type; 'error' only logs, any other type has no case
wsHandler(st, msg) ==
    CASE msg.type = "roomJoined"          -> onRoomJoined(st, msg)
      [] msg.type = "playerJoined"        -> onPlayerJoined(st, msg)
      [] msg.type = "playerLeft"          -> onPlayerLeft(st, msg)
      [] msg.type = "playerStatusChanged" -> onPlayerStatusChanged(st, msg)
      [] msg.type = "playerSeatChanged"   -> onPlayerSeatChanged(st, msg)
      [] OTHER                            -> st

\* A frame is the text on the wire: parse = "bad" does not parse as JSON,
\* parse = "null" parses to null (reading msg.type then throws), and
\* parse = "ok" parses to msg.
throwsOn(frame) == frame.parse \in {"bad", "null"}

\* WsClient.ws.onmessage: JSON.parse and the handler inside try/catch
wsOnMessage(st, frame) ==
    IF throwsOn(frame) THEN [st |-> st, uncaught |-> FALSE]
    ELSE [st |-> wsHandler(st, frame.msg), uncaught |-> FALSE]

\* a setStatus that only sends
wsSetStatusSendOnly(st, status) == st

\* the hook's setStatus, after wsClient.send
wsSetStatus(st, status) ==
    IF st.myPlayerId = 0 THEN st
    ELSE [st EXCEPT !.chars = setAgentTool(
                                 setAgentActive(@, st.myPlayerId,
                                                statusToActive(status)),
                                 st.myPlayerId, statusToTool(status)),
                    !.players = mapStatus(@, st.myPlayerId, status)]

-----------------------------------------------------------------------------
(* Relay: Room and RoomManager.  A room is [players, nextPlayerId,          *)
(* cleanupTimer]; players is the Map in insertion order, as a sequence of  *)
(* [ws, info].  `open` is the set of sockets whose readyState is OPEN.     *)

\* generateRoomId: draws[i] is Math.floor(Math.random() * chars.length) of
\* the i-th round of the loop
generateRoomId(draws) ==
    [i \in 1..ROOM_CODE_LEN |-> ROOM_CODE_CHARS[draws[i] + 1]]

\* the remainder operator % of the relay's language: the sign of the dividend
jsRem(a, b) == IF a >= 0 THEN a % b ELSE -((-a) % b)

newRoom == [players |-> <<>>, nextPlayerId |-> 1, cleanupTimer |-> FALSE]

hasPlayer(room, ws) == \E i \in DOMAIN room.players : room.players[i].ws = ws

getPlayer(room, ws) ==
    room.players[CHOOSE i \in DOMAIN room.players : room.players[i].ws = ws]

\* the PlayerInfo addPlayer builds
addedInfo(room, characterIndex) ==
    [id             |-> room.nextPlayerId,
     characterIndex |-> jsRem(characterIndex, 6),
     status         |-> "idle",
     seatId         |-> Null]

\* Map.set: a key already present keeps its place
mapSet(list, ws, entry) ==
    IF \E i \in DOMAIN list : list[i].ws = ws
    THEN [i \in DOMAIN list |-> IF list[i].ws = ws THEN entry ELSE list[i]]
    ELSE Append(list, entry)

addPlayer(room, ws, characterIndex) ==
    [room EXCEPT !.cleanupTimer = FALSE,
                 !.nextPlayerId = @ + 1,
                 !.players = mapSet(@, ws,
                                 [ws |-> ws,
                                  info |-> addedInfo(room, characterIndex)])]

removePlayer(room, ws) ==
    [room EXCEPT !.players = SelectSeq(@, LAMBDA p : p.ws # ws)]

getPlayerInfos(room) == [i \in DOMAIN room.players |-> room.players[i].info]

isEmpty(room) == room.players = <<>>

\* Room.broadcast: one send per player that is not `exclude` and is open
broadcastTo(room, exclude, open) ==
    SelectSeq(room.players, LAMBDA p : p.ws # exclude /\ p.ws \in open)

broadcast(room, msg, exclude, open) ==
    LET to == broadcastTo(room, exclude, open)
    IN  [i \in DOMAIN to |-> [to |-> to[i].ws, msg |-> msg]]

sendTo(ws, msg, open) ==
    IF ws \in open THEN << [to |-> ws, msg |-> msg] >> ELSE <<>>

\* the outcome of a RoomManager method on rs = [rooms, wsToRoom]
relayOut(rs, out) == [rooms |-> rs.rooms, wsToRoom |-> rs.wsToRoom, out |-> out]

\* roomId is the id the do-while loop settled on
handleCreateRoom(rs, open, ws, characterIndex, newId) ==
    LET room == addPlayer(newRoom, ws, characterIndex)
        info == addedInfo(newRoom, characterIndex)
    IN  [rooms    |-> put(rs.rooms, newId, room),
         wsToRoom |-> put(rs.wsToRoom, ws, newId),
         out      |-> sendTo(ws, [NoMsg EXCEPT !.type = "roomJoined",
                                               !.roomId = newId,
                                               !.playerId = info.id,
                                               !.players = << info >>], open)]

handleJoinRoom(rs, open, ws, id, characterIndex) ==
    IF id \notin DOMAIN rs.rooms
    THEN relayOut(rs, sendTo(ws, [NoMsg EXCEPT !.type = "error"], open))
    ELSE LET room == rs.rooms[id]
             existingPlayers == getPlayerInfos(room)
             info == addedInfo(room, characterIndex)
             room2 == addPlayer(room, ws, characterIndex)
         IN  [rooms    |-> put(rs.rooms, id, room2),
              wsToRoom |-> put(rs.wsToRoom, ws, id),
              out      |-> sendTo(ws, [NoMsg EXCEPT
                                          !.type = "roomJoined",
                                          !.roomId = id,
                                          !.playerId = info.id,
                                          !.players = Append(existingPlayers,
                                                             info)], open)
                           \o broadcast(room2,
                                        [NoMsg EXCEPT !.type = "playerJoined",
                                                      !.player = info],
                                        ws, open)]

\* player.info.status = status
withStatus(room, ws, status) ==
    [room EXCEPT !.players =
        [i \in DOMAIN @ |-> IF @[i].ws = ws
                            THEN [@[i] EXCEPT !.info.status = status]
                            ELSE @[i]]]

\* player.info.seatId = seatId
withSeat(room, ws, seatId) ==
    [room EXCEPT !.players =
        [i \in DOMAIN @ |-> IF @[i].ws = ws
                            THEN [@[i] EXCEPT !.info.seatId = seatId]
                            ELSE @[i]]]

handleSetStatus(rs, open, ws, status) ==
    IF ws \notin DOMAIN rs.wsToRoom THEN relayOut(rs, <<>>)
    ELSE LET id == rs.wsToRoom[ws]
             room == rs.rooms[id]
         IN  IF ~hasPlayer(room, ws) THEN relayOut(rs, <<>>)
             ELSE LET room2 == withStatus(room, ws, status)
                  IN  [rooms    |-> put(rs.rooms, id, room2),
                       wsToRoom |-> rs.wsToRoom,
                       out      |-> broadcast(room2,
                                       [NoMsg EXCEPT
                                          !.type = "playerStatusChanged",
                                          !.playerId = getPlayer(room, ws).info.id,
                                          !.status = status],
                                       ws, open)]

handleReassignSeat(rs, open, ws, seatId) ==
    IF ws \notin DOMAIN rs.wsToRoom THEN relayOut(rs, <<>>)
    ELSE LET id == rs.wsToRoom[ws]
             room == rs.rooms[id]
         IN  IF ~hasPlayer(room, ws) THEN relayOut(rs, <<>>)
             ELSE LET room2 == withSeat(room, ws, seatId)
                  IN  [rooms    |-> put(rs.rooms, id, room2),
                       wsToRoom |-> rs.wsToRoom,
                       out      |-> broadcast(room2,
                                       [NoMsg EXCEPT
                                          !.type = "playerSeatChanged",
                                          !.playerId = getPlayer(room, ws).info.id,
                                          !.seatId = seatId],
                                       ws, open)]

\* a variant that never schedules the cleanup of the room it empties
handleDisconnectNoCleanup(rs, open, ws) ==
    IF ws \notin DOMAIN rs.wsToRoom THEN relayOut(rs, <<>>)
    ELSE LET id == rs.wsToRoom[ws]
             room == rs.rooms[id]
             room1 == removePlayer(room, ws)
         IN  [rooms    |-> put(rs.rooms, id, room1),
              wsToRoom |-> [w \in DOMAIN rs.wsToRoom \ {ws} |-> rs.wsToRoom[w]],
              out      |-> IF hasPlayer(room, ws)
                           THEN broadcast(room1,
                                   [NoMsg EXCEPT
                                      !.type = "playerLeft",
                                      !.playerId = getPlayer(room, ws).info.id],
                                   Null, open)
                           ELSE <<>>]

handleDisconnect(rs, open, ws) ==
    IF ws \notin DOMAIN rs.wsToRoom THEN relayOut(rs, <<>>)
    ELSE LET id == rs.wsToRoom[ws]
             room == rs.rooms[id]
             room1 == removePlayer(room, ws)
             room2 == IF isEmpty(room1)
                      THEN [room1 EXCEPT !.cleanupTimer = TRUE] ELSE room1
         IN  [rooms    |-> put(rs.rooms, id, room2),
              wsToRoom |-> [w \in DOMAIN rs.wsToRoom \ {ws} |-> rs.wsToRoom[w]],
              out      |-> IF hasPlayer(room, ws)
                           THEN broadcast(room1,
                                   [NoMsg EXCEPT
                                      !.type = "playerLeft",
                                      !.playerId = getPlayer(room, ws).info.id],
                                   Null, open)
                           ELSE <<>>]

\* the switch on msg.type; any other type has no case
handleMessage(rs, open, ws, msg, newId) ==
    CASE msg.type = "createRoom" ->
            handleCreateRoom(rs, open, ws, msg.characterIndex, newId)
      [] msg.type = "joinRoom" ->
            handleJoinRoom(rs, open, ws, msg.roomId, msg.characterIndex)
      [] msg.type = "setStatus" -> handleSetStatus(rs, open, ws, msg.status)
      [] msg.type = "reassignSeat" ->
            handleReassignSeat(rs, open, ws, msg.seatId)
      [] msg.type = "ping" ->
            relayOut(rs, sendTo(ws, [NoMsg EXCEPT !.type = "pong"], open))
      [] OTHER -> relayOut(rs, <<>>)

\* the message listener without its try/catch
relayOnMessageBare(rs, open, ws, frame, newId) ==
    IF throwsOn(frame)
    THEN [res |-> relayOut(rs, <<>>), uncaught |-> TRUE]
    ELSE [res |-> handleMessage(rs, open, ws, frame.msg, newId),
          uncaught |-> FALSE]

\* ws.on('message'): JSON.parse and handleMessage inside try/catch
relayOnMessage(rs, open, ws, frame, newId) ==
    IF throwsOn(frame)
    THEN [res |-> relayOut(rs, <<>>), uncaught |-> FALSE]
    ELSE [res |-> handleMessage(rs, open, ws, frame.msg, newId),
          uncaught |-> FALSE]

\* the cleanup timer of a room fires
cleanupFired(rms, id) ==
    IF isEmpty(rms[id]) THEN [r \in DOMAIN rms \ {id} |-> rms[r]]
    ELSE [rms EXCEPT ![id].cleanupTimer = FALSE]

-----------------------------------------------------------------------------
(* Inputs *)

Programs == {"presence", "ws", "relay"}

\* a room other participants of the realtime service hold, and the ids
\* they drew with generatePlayerId
OtherRoom == generateRoomCode([i \in 1..ROOM_CODE_LEN |-> 0])
PeerIds == << MaxLocalId >>

\* the realtime service after a participant with a new connection tracks
\* itself on the channel of `code`
tracked(live, code, id) ==
    IF code \in DOMAIN live THEN [live EXCEPT ![code] = Append(@, id)]
    ELSE [c \in DOMAIN live \cup {code} |->
             IF c = code THEN << id >> ELSE live[c]]

\* cells a peer may report: near the spawn cell, exactly TELEPORT_DIST from
\* it, and beyond
NearCell == <<2, 1>>
TenCell  == <<10, 0>>
FarCell  == <<13, 1>>
MoveTargets == {NearCell, TenCell, FarCell, Isolated, WallCell}

\* what a peer may have published into the presence state
PlainPayload  == [status |-> "idle",   seatId |-> Null,     tile |-> NoCell]
SeatedPayload == [status |-> "coding", seatId |-> "desk-1", tile |-> NearCell]
PayloadKinds  == {PlainPayload, SeatedPayload}

presenceOf(ks, empt, kind) ==
    [k \in ks |-> IF k \in empt THEN <<>>
                  ELSE << [id     |-> k,
                           status |-> kind[k].status,
                           seatId |-> kind[k].seatId,
                           tile   |-> kind[k].tile] >>]

\* STATUS_OPTIONS, cycled by the toolbar button
nextStatus(status) ==
    CASE status = "coding"  -> "reading"
      [] status = "reading" -> "idle"
      [] status = "idle"    -> "afk"
      [] OTHER              -> "coding"

EmptyMap == [i \in {} |-> 0]

\* what the relay may report about a player
PlainInfo   == [status |-> "idle",   seatId |-> Null]
SeatedInfo  == [status |-> "coding", seatId |-> "desk-1"]
InfoKinds   == {PlainInfo, SeatedInfo}

infoOf(id, kind) == [id |-> id, status |-> kind.status, seatId |-> kind.seatId]

infoList(ks, kind) ==
    LET q == ascending(ks) IN [i \in DOMAIN q |-> infoOf(q[i], kind[q[i]])]

okFrame(msg) == [parse |-> "ok", msg |-> msg]

\* frames that do not parse, or parse to something that is no message
BadFrames == {[parse |-> "bad", msg |-> NoMsg], [parse |-> "null", msg |-> NoMsg]}

\* well-formed frames of a type the receiver has no case for
UnknownFrames == {okFrame([NoMsg EXCEPT !.type = "pong"]),
                  okFrame([NoMsg EXCEPT !.type = "bogus"])}

RoomJoinedFrames(kinds) ==
    UNION { UNION { { okFrame([NoMsg EXCEPT !.type = "roomJoined",
                                            !.roomId = OtherRoom,
                                            !.playerId = pid,
                                            !.players = infoList(ks, kind)])
                      : kind \in [ks -> kinds] }
                    : ks \in {k \in SUBSET Ids : pid \in k} }
            : pid \in LocalIds }

PlayerJoinedFrames(kinds) ==
    { okFrame([NoMsg EXCEPT !.type = "playerJoined",
                            !.player = infoOf(id, kind)])
      : id \in Ids, kind \in kinds }

PlayerLeftFrames ==
    { okFrame([NoMsg EXCEPT !.type = "playerLeft", !.playerId = id])
      : id \in Ids }

StatusChangedFrames ==
    { okFrame([NoMsg EXCEPT !.type = "playerStatusChanged", !.playerId = id,
                            !.status = status])
      : id \in EventIds, status \in PlayerStatus }

SeatChangedFrames ==
    { okFrame([NoMsg EXCEPT !.type = "playerSeatChanged", !.playerId = id,
                            !.seatId = seatId])
      : id \in EventIds, seatId \in SeatIds }

ErrorFrames == {okFrame([NoMsg EXCEPT !.type = "error"])}

\* the relay's clients: sockets, the codes generateRoomId draws, and the
\* frames a client may send
Sockets   == {"w1", "w2"}
\* the draws of the random generator: every round the first, or every round
\* the last, character of the alphabet
DrawIndexes == {0, Len(ROOM_CODE_CHARS) - 1}
Draws == { [i \in 1..ROOM_CODE_LEN |-> k] : k \in DrawIndexes }
RoomCodes == { generateRoomId(d) : d \in Draws }
CharacterIndexes == {7, -1}

JoinFrames(indexes) ==
    { okFrame([NoMsg EXCEPT !.type = "createRoom", !.characterIndex = c])
      : c \in indexes }
    \cup { okFrame([NoMsg EXCEPT !.type = "joinRoom", !.roomId = r,
                                 !.characterIndex = c])
           : r \in RoomCodes, c \in indexes }

SetStatusFrames ==
    { okFrame([NoMsg EXCEPT !.type = "setStatus", !.status = status])
      : status \in {"coding", "afk"} }

ReassignSeatFrames ==
    { okFrame([NoMsg EXCEPT !.type = "reassignSeat", !.seatId = seatId])
      : seatId \in SeatIds }

PingFrames == { okFrame([NoMsg EXCEPT !.type = "ping"]) }

MembershipClientFrames ==
    JoinFrames({7}) \cup PingFrames \cup UnknownFrames
        \cup BadFrames

StatusClientFrames ==
    JoinFrames({7}) \cup SetStatusFrames

MembershipFrames ==
    RoomJoinedFrames({PlainInfo}) \cup PlayerJoinedFrames({PlainInfo})
        \cup PlayerLeftFrames \cup ErrorFrames \cup UnknownFrames
        \cup BadFrames

StatusFrames ==
    RoomJoinedFrames({PlainInfo}) \cup PlayerLeftFrames
        \cup StatusChangedFrames \cup SeatChangedFrames

-----------------------------------------------------------------------------
(* Initial state: the page is loaded, the relay is started *)

InitState ==
    /\ screen = "lobby"
    /\ myStatus = "idle"
    /\ error = Null
    /\ characters = EmptyMap
    /\ players = <<>>
    /\ roomId = NoRoom
    /\ myPlayerId = 0
    /\ connected = FALSE
    /\ channel = NoRoom
    /\ liveChannels = IF program = "presence"
                      THEN [c \in {OtherRoom} |-> PeerIds] ELSE EmptyMap
    /\ myInfo = NoInfo
    /\ subInfo = NoInfo
    /\ tracking = FALSE
    /\ lastBroadcastPos = <<-1, -1>>
    /\ lastBroadcastTime = 0
    /\ now = POSITION_BROADCAST_INTERVAL_MS
    /\ emitted = <<>>
    /\ peerChars = EmptyMap
    /\ delivered = 0
    /\ wsRef = 0
    /\ sockets = <<>>
    /\ pingTimer = FALSE
    /\ otherPings = 0
    /\ reconnectTimer = FALSE
    /\ otherReconnects = 0
    /\ pendingMessages = <<>>
    /\ construction \in IF program = "wsclient" THEN {"ok", "throws"}
                        ELSE {"ok"}
    /\ submitted = <<>>
    /\ agents = EmptyMap
    /\ waitingTimers = {}
    /\ waitingOthers = [a \in AgentIds |-> 0]
    /\ permissionTimers = {}
    /\ permissionOthers = [a \in AgentIds |-> 0]
    /\ fileWatchers = EmptyMap
    /\ otherWatchers = {}
    /\ pollingTimers = EmptyMap
    /\ otherPollers = [a \in AgentIds |-> 0]
    /\ files = EmptyMap
    /\ processed = [a \in AgentIds |-> <<>>]
    /\ knownJsonlFiles = {}
    /\ projectScanTimer = FALSE
    /\ otherScans = 0
    /\ activeAgentId = 0
    /\ reassignments = <<>>
    /\ atFirstRun = {}
    /\ sock = "null"
    /\ shouldReconnect = FALSE
    /\ joinCheck = "none"
    /\ rooms = EmptyMap
    /\ wsToRoom = EmptyMap
    /\ conns = {}
    /\ outbox = <<>>
    /\ thrown = FALSE
    /\ last = NoLast

Init ==
    /\ program \in Programs
    /\ tileMap = TileMap
    /\ InitState

-----------------------------------------------------------------------------
(* Presence client *)

\* the observation of an inbound event, which may repeat the one before
eventLast(op, id, status) ==
    LET e == [NoLast EXCEPT !.op = op, !.id = id, !.status = status]
    IN  [e EXCEPT !.again = (last = e \/ last = [e EXCEPT !.again = TRUE])]

\* App.handleCreateRoom / handleJoinRoom -> createRoom / joinRoom ->
\* subscribeToRoom
PCreateOrJoin ==
    /\ program = "presence"
    /\ screen = "lobby"
    /\ \E id \in LocalIds, create \in BOOLEAN :
       \E code \in IF create THEN { generateRoomCode(d) : d \in Draws }
                   ELSE RoomCodes :
          LET info == [id |-> id, status |-> "idle", seatId |-> Null]
          IN  /\ myInfo' = info
              /\ subInfo' = info
              /\ channel' = code
              /\ last' = [NoLast EXCEPT
                            !.op = IF create THEN "createRoom" ELSE "joinRoom",
                            !.id = id, !.room = code]
    /\ screen' = "connecting"
    /\ error' = Null
    /\ outbox' = <<>>
    /\ UNCHANGED << program, tileMap, myStatus, characters, hookVars, tracking,
                    liveChannels,
                    loopVars, peerVars, hostVars, wsVars, relayVars, thrown >>

\* channel.subscribe callback with SUBSCRIBED, up to the await
PSubscribed ==
    /\ program = "presence"
    /\ channel # NoRoom
    /\ ~tracking
    /\ characters' = addAgent(characters, subInfo.id, Null, TRUE)
    /\ outbox' = << trackPayload(subInfo, characters') >>
    /\ tracking' = TRUE
    /\ last' = [NoLast EXCEPT !.op = "subscribed", !.id = subInfo.id]
    /\ UNCHANGED << program, tileMap, appVars, hookVars, channel, liveChannels,
                    myInfo, subInfo, loopVars, peerVars, hostVars, wsVars, relayVars, thrown >>

\* channel.track resolved: the rest of the callback; App leaves the
\* connecting screen once roomId is set
PTrackResolved ==
    /\ program = "presence"
    /\ tracking
    /\ tracking' = FALSE
    /\ connected' = TRUE
    /\ roomId' = channel
    /\ liveChannels' = IF roomId = NoRoom
                       THEN tracked(liveChannels, channel, subInfo.id)
                       ELSE liveChannels
    /\ myPlayerId' = subInfo.id
    /\ screen' = IF screen = "connecting" THEN "office" ELSE screen
    /\ outbox' = <<>>
    /\ last' = [NoLast EXCEPT !.op = "tracked", !.id = subInfo.id]
    /\ UNCHANGED << program, tileMap, myStatus, error, characters, players, channel,
                    myInfo, subInfo, loopVars, peerVars, hostVars, wsVars, relayVars, thrown >>

\* presence `sync`, the presence state drawn from payloads of `kinds`; with
\* `gaps` a key of the state may hold an empty presence list
PSyncOver(kinds, gaps) ==
    /\ program = "presence"
    /\ channel # NoRoom
    /\ \E ks \in SUBSET Ids :
       \E empt \in {{}} \cup {{k} : k \in IF gaps THEN ks ELSE {}} :
       \E kind \in [ks -> kinds] :
          LET state == presenceOf(ks, empt, kind)
          IN  /\ players' = allPlayersOf(state)
              /\ characters' = presenceSync(characters, subInfo.id, state)
              /\ last' = [NoLast EXCEPT !.op = "sync",
                                        !.ids = presentKeys(state),
                                        !.before = DOMAIN characters]
    /\ outbox' = <<>>
    /\ UNCHANGED << program, tileMap, appVars, roomId, myPlayerId, connected,
                    presenceVars, loopVars, peerVars, hostVars, wsVars, relayVars, thrown >>

\* broadcast `status`
PStatus ==
    /\ program = "presence"
    /\ channel # NoRoom
    /\ \E id \in EventIds, status \in PlayerStatus :
          /\ characters' = presenceStatus(characters, subInfo.id, id, status)
          /\ last' = eventLast("status", id, status)
    /\ outbox' = <<>>
    /\ UNCHANGED << program, tileMap, appVars, hookVars, presenceVars, loopVars, peerVars, hostVars,
                    wsVars, relayVars, thrown >>

\* broadcast `move`
PMoveOver(targets) ==
    /\ program = "presence"
    /\ channel # NoRoom
    /\ \E id \in EventIds, cell \in targets :
          /\ characters' = presenceMove(characters, subInfo.id, id, cell)
          /\ last' = [NoLast EXCEPT
                        !.op = "move", !.id = id, !.cell = cell,
                        !.from = IF id \in DOMAIN characters
                                 THEN characters[id].tile ELSE NoCell,
                        !.path = IF id \in DOMAIN characters
                                 THEN characters[id].path ELSE <<>>]
    /\ outbox' = <<>>
    /\ UNCHANGED << program, tileMap, appVars, hookVars, presenceVars, loopVars, peerVars, hostVars,
                    wsVars, relayVars, thrown >>

\* the engine's frame: some of the walking characters reach their next cell
PTick ==
    /\ program = "presence"
    /\ \E arrive \in SUBSET {i \in DOMAIN characters :
                                characters[i].path # <<>>} :
          /\ arrive # {}
          /\ characters' = tick(characters, arrive)
          /\ last' = [NoLast EXCEPT !.op = "tick", !.ids = arrive]
    /\ outbox' = <<>>
    /\ UNCHANGED << program, tileMap, appVars, hookVars, presenceVars, loopVars, peerVars, hostVars,
                    wsVars, relayVars, thrown >>

\* requestAnimationFrame runs `tick` of the position broadcast loop
PBroadcastFrame ==
    /\ program = "presence"
    /\ LET r == broadcastFrame([pos |-> lastBroadcastPos,
                                time |-> lastBroadcastTime, sent |-> <<>>],
                               channel, myInfo, characters, now)
       IN  /\ lastBroadcastPos' = r.pos
           /\ lastBroadcastTime' = r.time
           /\ outbox' = r.sent
           /\ emitted' = IF r.sent = <<>> THEN emitted
                         ELSE Append(emitted, [tile |-> r.sent[1].tile,
                                               at   |-> now])
           /\ last' = [NoLast EXCEPT !.op = IF r.sent = <<>> THEN "frame"
                                            ELSE "moveSent"]
    /\ UNCHANGED << program, tileMap, appVars, characters, hookVars, presenceVars,
                    now, peerVars, hostVars, wsVars, relayVars, thrown >>

\* time passes
ClockAdvanceOver(steps) ==
    /\ program = "presence"
    /\ \E d \in steps :
          /\ now + d <= MaxNow
          /\ now' = now + d
    /\ outbox' = <<>>
    /\ last' = [NoLast EXCEPT !.op = "clock"]
    /\ UNCHANGED << program, tileMap, appVars, characters, hookVars, presenceVars,
                    lastBroadcastPos, lastBroadcastTime, emitted, peerVars, hostVars,
                    wsVars, relayVars, thrown >>

ClockAdvance == ClockAdvanceOver({100, 200})

\* the clock moves on by the interval of the broadcast loop
ClockInterval == ClockAdvanceOver({POSITION_BROADCAST_INTERVAL_MS})

\* the user sends the local character to a cell
PLocalWalk ==
    /\ program = "presence"
    /\ screen = "office"
    /\ myInfo.id \in DOMAIN characters
    /\ \E cell \in {NearCell, SpawnCell} :
          /\ characters' = walkToTile(characters, myInfo.id, cell)
          /\ last' = [NoLast EXCEPT !.op = "walk", !.id = myInfo.id,
                                    !.cell = cell]
    /\ outbox' = <<>>
    /\ UNCHANGED << program, tileMap, appVars, hookVars, presenceVars, loopVars, peerVars, hostVars,
                    wsVars, relayVars, thrown >>

\* the id a peer in the room drew for itself
PeerMe == MaxLocalId + 1

\* the peer's presence `sync` that the track of the local participant
\* causes; the peer is in the room already and handles it ahead of the
\* participant's position events
QSync ==
    /\ program = "presence"
    /\ last.op = "tracked"
    /\ emitted = <<>>
    /\ peerChars' = syncAddOne(peerChars, DOMAIN peerChars, PeerMe,
                               trackPayload(subInfo, characters))
    /\ last' = [NoLast EXCEPT !.op = "peerSync", !.id = subInfo.id]
    /\ outbox' = <<>>
    /\ UNCHANGED << program, tileMap, appVars, characters, hookVars,
                    presenceVars, loopVars, delivered, hostVars, wsVars, relayVars,
                    thrown >>

\* the peer's broadcast `move` handler takes the oldest event in flight
QMove ==
    /\ program = "presence"
    /\ delivered < Len(emitted)
    /\ delivered' = delivered + 1
    /\ peerChars' = presenceMove(peerChars, PeerMe, myInfo.id,
                                 emitted[delivered + 1].tile)
    /\ last' = [NoLast EXCEPT !.op = "peerMove", !.id = myInfo.id,
                              !.cell = emitted[delivered + 1].tile]
    /\ outbox' = <<>>
    /\ UNCHANGED << program, tileMap, appVars, characters, hookVars,
                    presenceVars, loopVars, hostVars, wsVars, relayVars, thrown >>

\* the peer's engine frame
QTick ==
    /\ program = "presence"
    /\ \E arrive \in SUBSET {i \in DOMAIN peerChars :
                                peerChars[i].path # <<>>} :
          /\ arrive # {}
          /\ peerChars' = tick(peerChars, arrive)
          /\ last' = [NoLast EXCEPT !.op = "peerTick", !.ids = arrive]
    /\ outbox' = <<>>
    /\ UNCHANGED << program, tileMap, appVars, characters, hookVars,
                    presenceVars, loopVars, delivered, hostVars, wsVars, relayVars,
                    thrown >>

\* the engine's idle behaviour picks a character and a cell to wander to
PWander ==
    /\ program = "presence"
    /\ \E id \in DOMAIN characters, cell \in {NearCell, SpawnCell} :
          /\ characters' = wander(tileMap, characters, id, cell)
          /\ last' = [NoLast EXCEPT !.op = "wander", !.id = id, !.cell = cell]
    /\ outbox' = <<>>
    /\ UNCHANGED << program, tileMap, appVars, hookVars, presenceVars, loopVars, peerVars, hostVars,
                    wsVars, relayVars, thrown >>

\* the hook's setStatus
presenceSetStatus(chars, info, status) ==
    setAgentTool(setAgentActive(chars, info.id, statusToActive(status)),
                 info.id, statusToTool(status))

\* App.handleSetStatus from the toolbar of the office screen -> setStatus
PSetStatus ==
    /\ program = "presence"
    /\ screen = "office"
    /\ LET status == nextStatus(myStatus)
       IN  /\ myStatus' = status
           /\ IF channel = NoRoom \/ myInfo = NoInfo
              THEN /\ UNCHANGED << myInfo, characters, players >>
                   /\ outbox' = <<>>
              ELSE /\ myInfo' = [myInfo EXCEPT !.status = status]
                   /\ outbox' = << trackPayload(myInfo', characters),
                                   [type |-> "status", id |-> myInfo.id,
                                    status |-> status] >>
                   /\ characters' = presenceSetStatus(characters, myInfo,
                                                      status)
                   /\ players' = mapStatus(players, myInfo.id, status)
           /\ last' = [NoLast EXCEPT !.op = "setStatus", !.id = myInfo.id,
                                     !.status = status]
    /\ UNCHANGED << program, tileMap, screen, error, roomId, myPlayerId, connected,
                    channel, liveChannels, subInfo, tracking, loopVars, peerVars, hostVars,
                    wsVars, relayVars, thrown >>

-----------------------------------------------------------------------------
(* WebSocket client: App, the hook and WsClient *)

hookState == [chars |-> characters, players |-> players, roomId |-> roomId,
              myPlayerId |-> myPlayerId]

\* App.handleCreateRoom / handleJoinRoom -> createRoom / joinRoom:
\* wsClient.connect() and the interval that waits for the connection
WCreateOrJoin ==
    /\ program = "ws"
    /\ screen = "lobby"
    /\ screen' = "connecting"
    /\ error' = Null
    /\ shouldReconnect' = TRUE
    /\ sock' = IF sock = "null" THEN "connecting" ELSE sock
    /\ joinCheck' = "waiting"
    /\ outbox' = <<>>
    /\ last' = [NoLast EXCEPT !.op = "connect"]
    /\ UNCHANGED << program, tileMap, myStatus, characters, hookVars, presenceVars,
                    loopVars, peerVars, hostVars, relayVars, thrown >>

\* ws.onopen
WOpen ==
    /\ program = "ws"
    /\ sock = "connecting"
    /\ sock' = "open"
    /\ connected' = TRUE
    /\ outbox' = <<>>
    /\ last' = [NoLast EXCEPT !.op = "open"]
    /\ UNCHANGED << program, tileMap, appVars, characters, players, roomId, myPlayerId,
                    presenceVars, loopVars, peerVars, hostVars, shouldReconnect, joinCheck,
                    relayVars, thrown >>

\* ws.onclose
WClose ==
    /\ program = "ws"
    /\ sock \in {"connecting", "open"}
    /\ sock' = "null"
    /\ connected' = FALSE
    /\ outbox' = <<>>
    /\ last' = [NoLast EXCEPT !.op = "close"]
    /\ UNCHANGED << program, tileMap, appVars, characters, players, roomId, myPlayerId,
                    presenceVars, loopVars, peerVars, hostVars, shouldReconnect, joinCheck,
                    relayVars, thrown >>

\* the reconnect timer fires: doConnect
WReconnect ==
    /\ program = "ws"
    /\ sock = "null"
    /\ shouldReconnect
    /\ sock' = "connecting"
    /\ outbox' = <<>>
    /\ last' = [NoLast EXCEPT !.op = "reconnect"]
    /\ UNCHANGED << program, tileMap, appVars, characters, hookVars, presenceVars,
                    loopVars, peerVars, hostVars, shouldReconnect, joinCheck, relayVars, thrown >>

\* the interval of createRoom / joinRoom finds the client connected and
\* sends the request
WJoinTick ==
    /\ program = "ws"
    /\ joinCheck = "waiting"
    /\ sock = "open"
    /\ joinCheck' = "sent"
    /\ outbox' = << [NoMsg EXCEPT !.type = "joinRoom",
                                  !.roomId = OtherRoom] >>
    /\ last' = [NoLast EXCEPT !.op = "joinSent"]
    /\ UNCHANGED << program, tileMap, appVars, characters, hookVars, presenceVars,
                    loopVars, peerVars, hostVars, sock, shouldReconnect, relayVars, thrown >>

\* the 10 s timeout clears the interval
WJoinTimeout ==
    /\ program = "ws"
    /\ joinCheck = "waiting"
    /\ joinCheck' = "expired"
    /\ outbox' = <<>>
    /\ last' = [NoLast EXCEPT !.op = "joinTimeout"]
    /\ UNCHANGED << program, tileMap, appVars, characters, hookVars, presenceVars,
                    loopVars, peerVars, hostVars, sock, shouldReconnect, relayVars, thrown >>

\* What the relay sends to a client that joined once: one reply to the join
\* (roomJoined, or error for a room that does not exist), and
\* after it notifications about the other players of the room (the relay
\* leaves the originator out of every broadcast).
fromRelay(frame) ==
    LET t == frame.msg.type
    IN  /\ t \in {"roomJoined", "error"}
              => (roomId = NoRoom /\ joinCheck = "sent")
        /\ t \in {"playerLeft", "playerStatusChanged", "playerSeatChanged"}
              => (roomId # NoRoom /\ frame.msg.playerId # myPlayerId)
        /\ t = "playerJoined"
              => (roomId # NoRoom /\ frame.msg.player.id # myPlayerId)

\* the observation of a frame
frameLast(frame) ==
    LET op == IF frame.parse = "ok" THEN frame.msg.type ELSE frame.parse
        id == IF op = "playerJoined" THEN frame.msg.player.id
              ELSE frame.msg.playerId
    IN  IF op = "playerStatusChanged"
        THEN eventLast(op, id, frame.msg.status)
        ELSE IF op = "playerSeatChanged"
        THEN eventLast(op, id, frame.msg.seatId)
        ELSE [NoLast EXCEPT !.op = op, !.id = id,
                            !.ids = playerIds(frame.msg.players)]

\* a frame arrives on the open socket
WMessageOver(frames) ==
    /\ program = "ws"
    /\ sock = "open"
    /\ \E frame \in frames :
          LET r == wsOnMessage(hookState, frame)
          IN  /\ fromRelay(frame)
              /\ characters' = r.st.chars
              /\ players' = r.st.players
              /\ roomId' = r.st.roomId
              /\ myPlayerId' = r.st.myPlayerId
              /\ thrown' = (thrown \/ r.uncaught)
              /\ screen' = IF screen = "connecting" /\ r.st.roomId # NoRoom
                           THEN "office" ELSE screen
              /\ last' = frameLast(frame)
    /\ Len(players') <= MaxPlayers
    /\ outbox' = <<>>
    /\ UNCHANGED << program, tileMap, myStatus, error, connected, presenceVars,
                    loopVars, peerVars, hostVars, wsVars, relayVars >>

\* App.handleSetStatus from the toolbar of the office screen -> setStatus
WSetStatus ==
    /\ program = "ws"
    /\ screen = "office"
    /\ LET status == nextStatus(myStatus)
           r == wsSetStatus(hookState, status)
       IN  /\ myStatus' = status
           /\ outbox' = IF sock = "open"
                        THEN << [NoMsg EXCEPT !.type = "setStatus",
                                              !.status = status] >>
                        ELSE <<>>
           /\ characters' = r.chars
           /\ players' = r.players
           /\ last' = [NoLast EXCEPT !.op = "setStatus", !.id = myPlayerId,
                                     !.status = status]
    /\ UNCHANGED << program, tileMap, screen, error, roomId, myPlayerId, connected,
                    presenceVars, loopVars, peerVars, hostVars, wsVars, relayVars, thrown >>

-----------------------------------------------------------------------------
(* Relay: the server of index.ts.  An uncaught exception ends the process, *)
(* so nothing runs once `thrown` is set.                                   *)

relayState == [rooms |-> rooms, wsToRoom |-> wsToRoom]

\* wss.on('connection'): the socket is a new object, one no room holds
RConnect ==
    /\ program = "relay"
    /\ ~thrown
    /\ \E ws \in Sockets \ conns :
          /\ \A r \in DOMAIN rooms : ~hasPlayer(rooms[r], ws)
          /\ conns' = conns \cup {ws}
          /\ last' = [NoLast EXCEPT !.op = "connection", !.ws = ws]
    /\ outbox' = <<>>
    /\ UNCHANGED << program, tileMap, appVars, characters, hookVars, presenceVars,
                    loopVars, peerVars, hostVars, wsVars, rooms, wsToRoom, thrown >>

\* ws.on('message'): a frame from a connected client.  A createRoom draws
\* the room id the generator settles on; a room stops at id MaxJoins.
RMessageOver(frames) ==
    /\ program = "relay"
    /\ ~thrown
    /\ \E ws \in conns, frame \in frames :
       \E newId \in IF frame.msg.type = "createRoom"
                    THEN RoomCodes \ DOMAIN rooms ELSE {NoRoom} :
          LET r == relayOnMessage(relayState, conns, ws, frame, newId)
          IN  /\ frame.msg.type = "joinRoom" /\ frame.msg.roomId \in DOMAIN rooms
                    => rooms[frame.msg.roomId].nextPlayerId <= MaxJoins
              /\ rooms' = r.res.rooms
              /\ wsToRoom' = r.res.wsToRoom
              /\ outbox' = r.res.out
              /\ thrown' = r.uncaught
              /\ last' = [NoLast EXCEPT
                            !.op = IF frame.parse = "ok" THEN frame.msg.type
                                   ELSE frame.parse,
                            !.ws = ws,
                            !.room = frame.msg.roomId]
    /\ UNCHANGED << program, tileMap, appVars, characters, hookVars, presenceVars,
                    loopVars, peerVars, hostVars, wsVars, conns >>

\* ws.on('close')
RClose ==
    /\ program = "relay"
    /\ ~thrown
    /\ \E ws \in conns :
          LET r == handleDisconnect(relayState, conns \ {ws}, ws)
          IN  /\ conns' = conns \ {ws}
              /\ rooms' = r.rooms
              /\ wsToRoom' = r.wsToRoom
              /\ outbox' = r.out
              /\ last' = [NoLast EXCEPT !.op = "close", !.ws = ws]
    /\ UNCHANGED << program, tileMap, appVars, characters, hookVars, presenceVars,
                    loopVars, peerVars, hostVars, wsVars, thrown >>

\* the timeout of scheduleCleanup fires for the room of code id
RCleanupOf(id) ==
    /\ program = "relay"
    /\ ~thrown
    /\ id \in DOMAIN rooms
    /\ rooms[id].cleanupTimer
    /\ rooms' = cleanupFired(rooms, id)
    /\ last' = [NoLast EXCEPT !.op = "cleanup", !.room = id]
    /\ outbox' = <<>>
    /\ UNCHANGED << program, tileMap, appVars, characters, hookVars, presenceVars,
                    loopVars, peerVars, hostVars, wsVars, wsToRoom, conns, thrown >>

RCleanup == \E id \in RoomCodes : RCleanupOf(id)

RMessage == RMessageOver(MembershipClientFrames)

RStatusMessage == RMessageOver(StatusClientFrames)

RelayNext ==
    \/ RConnect
    \/ RMessage
    \/ RClose
    \/ RCleanup

RelayStatusNext ==
    \/ RConnect
    \/ RStatusMessage
    \/ RClose

WMessage == WMessageOver(MembershipFrames)

WStatusMessage == WMessageOver(StatusFrames)

WsConnNext ==
    \/ WCreateOrJoin
    \/ WOpen
    \/ WClose
    \/ WReconnect
    \/ WJoinTick
    \/ WJoinTimeout

PSync == PSyncOver(PayloadKinds, TRUE)

PSyncSeated == PSyncOver({SeatedPayload}, FALSE)

PSyncPlain == PSyncOver({PlainPayload}, FALSE)

PresenceNext ==
    \/ PCreateOrJoin
    \/ PSubscribed
    \/ PTrackResolved
    \/ PSync

Next ==
    \/ PresenceNext
    \/ WsConnNext
    \/ WMessage
    \/ RelayNext

PMove == PMoveOver(MoveTargets)

PMoveNear == PMoveOver({SpawnCell, FarCell})

PresenceStatusNext ==
    \/ PCreateOrJoin
    \/ PSubscribed
    \/ PTrackResolved
    \/ PSyncSeated
    \/ PStatus
    \/ PMoveNear
    \/ PSetStatus

MoveNext ==
    \/ PCreateOrJoin
    \/ PSubscribed
    \/ PTrackResolved
    \/ PSyncPlain
    \/ PMove
    \/ PTick

SpecMove == Init /\ [][MoveNext]_vars

PMoveShort == PMoveOver({NearCell, SpawnCell})

\* the movement behaviours together with the engine's idle wandering
RemoteNext ==
    \/ PCreateOrJoin
    \/ PSubscribed
    \/ PTrackResolved
    \/ PSyncPlain
    \/ PMoveShort
    \/ PTick
    \/ PWander

SpecRemote == Init /\ [][RemoteNext]_vars

BroadcastNext ==
    \/ PCreateOrJoin
    \/ PSubscribed
    \/ PTrackResolved
    \/ PLocalWalk
    \/ PTick
    \/ ClockAdvance
    \/ PBroadcastFrame

SpecBroadcast == Init /\ [][BroadcastNext]_vars

\* the position broadcast loop of a participant together with a peer that
\* handles the events in the order they were sent; frames run and the
\* peer's handler and engine are scheduled
ConvergeNext ==
    \/ PCreateOrJoin
    \/ PSubscribed
    \/ PTrackResolved
    \/ PLocalWalk
    \/ PTick
    \/ ClockInterval
    \/ PBroadcastFrame
    \/ QSync
    \/ QMove
    \/ QTick

SpecConverge ==
    /\ Init
    /\ [][ConvergeNext]_vars
    /\ WF_vars(PBroadcastFrame)
    /\ WF_vars(QMove)
    /\ WF_vars(QTick)

StatusNext ==
    \/ PresenceStatusNext
    \/ WsConnNext
    \/ WStatusMessage
    \/ WSetStatus
    \/ RelayStatusNext

SpecStatus == Init /\ [][StatusNext]_vars

\* the relay on its own, with connections that send the requests the relay
\* fans out
RelayClientFrames ==
    JoinFrames({7}) \cup SetStatusFrames \cup ReassignSeatFrames

RAnyMessage == RMessageOver(RelayClientFrames)

FanOutNext ==
    \/ RConnect
    \/ RAnyMessage
    \/ RClose

SpecRelay == Init /\ [][FanOutNext]_vars

\* the relay's rooms: connections that create, join and leave with any
\* character index, and cleanup timers that fire once they are due
RJoinMessage == RMessageOver(JoinFrames(CharacterIndexes))

RoomsNext ==
    \/ RConnect
    \/ RJoinMessage
    \/ RClose
    \/ RCleanup

SpecCleanup ==
    /\ Init
    /\ [][RoomsNext]_vars
    /\ \A id \in RoomCodes : WF_vars(RCleanupOf(id))

Spec == Init /\ [][Next]_vars

(* The pathfinder on its own: findPath applied to drawn tile maps. *)

SmallCols == 3      \* width of the drawn maps
SmallRows == 3      \* height of the drawn maps
OpenSize  == 10     \* side of the all-floor map

\* every placement of obstacles on the small grid
SmallMaps ==
    { [cols |-> SmallCols, rows |-> SmallRows, blocked |-> b,
       chairs |-> NoChairs] :
        b \in SUBSET ((0..(SmallCols - 1)) \X (0..(SmallRows - 1))) }

OpenMap == [cols |-> OpenSize, rows |-> OpenSize, blocked |-> {},
            chairs |-> NoChairs]

Walker == 1         \* the id of the character that walks the drawn map

\* a character standing on `cell`
standingOn(cell) ==
    put(EmptyMap, Walker, [newCharacter(Null, FALSE) EXCEPT !.tile = cell])

\* one call findPath(from, to) on map m, and the moveTo(Walker, to) of a
\* character that stands on `from` when `from` is walkable; the call and
\* what it returned are kept in `last`. findPath keeps no state between
\* calls, so one call per behaviour covers them all.
FindPathOn(m, from, to) ==
    LET r == bfsPath(m, from, to)
    IN  /\ last' = [NoLast EXCEPT !.op = "findPath", !.grid = m,
                                   !.from = from, !.cell = to,
                                   !.found = r.found, !.path = r.path,
                                   !.dequeued = r.dequeued]
        /\ characters' = IF walkableIn(m, from)
                         THEN walkToTileOn(m, standingOn(from), Walker, to)
                         ELSE characters
        /\ UNCHANGED << program, tileMap, appVars, hookVars, presenceVars,
                        loopVars, peerVars, hostVars, wsVars, relayVars, outbox, thrown >>

FindPathSmall ==
    /\ program = "pathfinder"
    /\ last.op = "init"
    /\ \E m \in SmallMaps :
          \E from, to \in cellsOf(m) : FindPathOn(m, from, to)

FindPathOpen ==
    /\ program = "pathfinder"
    /\ last.op = "init"
    /\ \E to \in cellsOf(OpenMap) : FindPathOn(OpenMap, <<0, 0>>, to)

\* a frame in which the walking character reaches its next queued cell
PathTick ==
    /\ program = "pathfinder"
    /\ \E i \in DOMAIN characters :
          /\ characters[i].path # <<>>
          /\ characters' = tick(characters, {i})
          /\ last' = [last EXCEPT !.op = "tick", !.ids = {i}]
    /\ UNCHANGED << program, tileMap, appVars, hookVars, presenceVars,
                    loopVars, peerVars, hostVars, wsVars, relayVars, outbox, thrown >>

PathNext ==
    \/ FindPathSmall
    \/ FindPathOpen
    \/ PathTick

InitPath ==
    /\ program = "pathfinder"
    /\ tileMap = TileMap
    /\ InitState

SpecPath == InitPath /\ [][PathNext]_vars

(* The engine on its own: the public operations of the office state, called
   in any order on a small office with one desk. *)

EngineCols  == 5    \* width of the engine's office
EngineRows  == 5    \* height of the engine's office
MaxEngineId == 1    \* the engine's characters are 1..MaxEngineId

EngineIds == 1..MaxEngineId

DeskCell  == <<3, 3>>
ChairCell == <<3, 4>>

\* the office of the seat scenario: the desk of "desk-1" with its chair
ScenarioMap == [cols |-> EngineCols, rows |-> EngineRows,
                blocked |-> {DeskCell},
                chairs |-> [s \in SeatIds |-> ChairCell]]

\* the same office after an edit: a wall with one door, and a wall with none
DoorMap == [ScenarioMap EXCEPT
              !.blocked = {DeskCell} \cup {<<2, r>> : r \in 0..(EngineRows - 2)}]
WallMap == [ScenarioMap EXCEPT
              !.blocked = {DeskCell} \cup {<<2, r>> : r \in 0..(EngineRows - 1)}]

Layouts == {ScenarioMap, DoorMap, WallMap}

EngineTargets == {<<0, 4>>, <<4, 0>>, DeskCell, ChairCell}

engineFrame ==
    UNCHANGED << program, appVars, hookVars, presenceVars, loopVars, peerVars, hostVars, wsVars,
                 relayVars, outbox, thrown >>

\* addCharacter, of the local participant or of a remote-controlled one
EAddCharacter ==
    /\ program = "engine"
    /\ \E id \in EngineIds, seatId \in SeatIds \cup {Null}, isLocal \in BOOLEAN :
          LET added   == IF id \in DOMAIN characters THEN characters
                         ELSE put(characters, id,
                                  newCharacterOn(tileMap, seatId, isLocal))
          IN  /\ characters' = IF isLocal THEN added
                               ELSE setRemoteControlled(added, id, TRUE)
              /\ last' = [NoLast EXCEPT !.op = "addCharacter", !.id = id]
    /\ UNCHANGED tileMap
    /\ engineFrame

ESetStatus ==
    /\ program = "engine"
    /\ \E id \in EngineIds, status \in PlayerStatus :
          /\ characters' = setAgentTool(
                               setAgentActive(characters, id,
                                              statusToActive(status)),
                               id, statusToTool(status))
          /\ last' = [NoLast EXCEPT !.op = "setStatus", !.id = id,
                                    !.status = status]
    /\ UNCHANGED tileMap
    /\ engineFrame

ESetSeat ==
    /\ program = "engine"
    /\ \E id \in EngineIds, seatId \in SeatIds :
          /\ characters' = reassignSeatOn(tileMap, characters, id, seatId)
          /\ last' = [NoLast EXCEPT !.op = "setSeat", !.id = id,
                                    !.status = seatId]
    /\ UNCHANGED tileMap
    /\ engineFrame

EMoveTo ==
    /\ program = "engine"
    /\ \E id \in EngineIds, cell \in EngineTargets :
          /\ characters' = walkToTileOn(tileMap, characters, id, cell)
          /\ last' = [NoLast EXCEPT !.op = "moveTo", !.id = id, !.cell = cell]
    /\ UNCHANGED tileMap
    /\ engineFrame

ETeleportTo ==
    /\ program = "engine"
    /\ \E id \in EngineIds, cell \in EngineTargets :
          /\ characters' = teleportToTile(characters, id, cell)
          /\ last' = [NoLast EXCEPT !.op = "teleportTo", !.id = id,
                                    !.cell = cell]
    /\ UNCHANGED tileMap
    /\ engineFrame

EWander ==
    /\ program = "engine"
    /\ \E id \in EngineIds, cell \in EngineTargets :
          /\ characters' = wander(tileMap, characters, id, cell)
          /\ last' = [NoLast EXCEPT !.op = "wander", !.id = id, !.cell = cell]
    /\ UNCHANGED tileMap
    /\ engineFrame

ERebuild ==
    /\ program = "engine"
    /\ \E m \in Layouts :
          /\ tileMap' = m
          /\ characters' = rebuildFromLayout(characters, m)
          /\ last' = [NoLast EXCEPT
                        !.op = "rebuildFromLayout", !.grid = m,
                        !.ids = {i \in DOMAIN characters :
                                   ~validPath(m, characters[i].path)}]
    /\ engineFrame

ETick ==
    /\ program = "engine"
    /\ \E arrive \in SUBSET {i \in DOMAIN characters :
                                characters[i].path # <<>>} :
          /\ arrive # {}
          /\ characters' = tick(characters, arrive)
          /\ last' = [NoLast EXCEPT !.op = "tick", !.ids = arrive]
    /\ UNCHANGED tileMap
    /\ engineFrame

EngineNext ==
    \/ EAddCharacter
    \/ ESetStatus
    \/ ESetSeat
    \/ EMoveTo
    \/ ETeleportTo
    \/ EWander
    \/ ERebuild
    \/ ETick

InitEngine ==
    /\ program = "engine"
    /\ tileMap = ScenarioMap
    /\ InitState

SpecEngine == InitEngine /\ [][EngineNext]_vars

\* seat assignment followed by ticks only: the render loop keeps calling
\* tick, so a character with a queued path is eventually stepped
SeatNext ==
    \/ EAddCharacter
    \/ ESetStatus
    \/ ESetSeat
    \/ ETick

SpecSeat == InitEngine /\ [][SeatNext]_vars /\ WF_vars(ETick)

-----------------------------------------------------------------------------
(* Properties *)

\* C1: after the presence sync handler has run on a snapshot S, whatever was
\* tracked before, the tracked ids other than the local participant's are
\* exactly S without the local id.
C1_ReconciliationComplete ==
    (program = "presence" /\ last.op = "sync")
        => (DOMAIN characters) \ {subInfo.id} = last.ids \ {subInfo.id}

\* an empty snapshot has been reconciled against three tracked characters
C1_EmptySnapshotReconciled ==
    /\ program = "presence"
    /\ last.op = "sync"
    /\ last.ids = {}
    /\ last.before = Ids
    /\ DOMAIN characters = {subInfo.id}

\* C2: once the local character is in the engine, no presence sync removes
\* it, whatever the snapshot holds.
C2_LocalNeverRemoved ==
    [][(program = "presence" /\ last'.op = "sync"
            /\ subInfo.id \in DOMAIN characters)
        => subInfo.id \in DOMAIN characters']_vars

\* a snapshot without the local id has been reconciled while the local
\* character was tracked, and it is still there
C2_OmittingSnapshotSurvived ==
    /\ program = "presence"
    /\ last.op = "sync"
    /\ subInfo.id \in last.before
    /\ subInfo.id \notin last.ids
    /\ last.ids # {}
    /\ subInfo.id \in DOMAIN characters

\* the frames no receiver has a case for, and the ones that do not parse
MalformedOps == {"bad", "null", "pong", "bogus"}

\* C10: a frame that does not parse or has an unrecognised type changes
\* neither the relay's rooms and memberships nor the client's engine and
\* hook state, raises nothing, and leaves the connection open.
C10_MalformedDropped ==
    [][(last'.op \in MalformedOps)
        => /\ ~thrown'
           /\ program = "relay"
                => /\ rooms' = rooms
                   /\ wsToRoom' = wsToRoom
                   /\ conns' = conns
                   /\ last'.ws \in conns'
           /\ program = "ws"
                => /\ characters' = characters
                   /\ players' = players
                   /\ roomId' = roomId
                   /\ myPlayerId' = myPlayerId
                   /\ sock' = "open"]_vars

\* the relay has taken an unparseable frame from a member of a room
C10_RelayDroppedFrame ==
    /\ program = "relay"
    /\ last.op = "bad"
    /\ last.ws \in DOMAIN wsToRoom
    /\ last.ws \in conns

\* C3: a presence sync leaves every character that is tracked and in the
\* snapshot as it was (tile, queued path, status, seat), and removes every
\* tracked remote character the snapshot does not hold.
C3_TrackedUntouched ==
    [][(program = "presence" /\ last'.op = "sync")
        => \A id \in DOMAIN characters :
              /\ id \in last'.ids
                    => (id \in DOMAIN characters'
                        /\ characters'[id] = characters[id])
              /\ (id \notin last'.ids /\ id # subInfo.id)
                    => id \notin DOMAIN characters']_vars

\* a snapshot holding 2 but not 3 has been reconciled while both were
\* tracked; 2 is at another tile and in another status than the snapshot
\* reports, with a path queued
C3_WalkingSurvivorAbsentRemoved ==
    /\ program = "presence"
    /\ last.op = "sync"
    /\ {2, 3} \subseteq last.before
    /\ 2 \in last.ids
    /\ 3 \notin last.ids
    /\ 2 \in DOMAIN characters
    /\ characters[2].path # <<>>
    /\ ~characters[2].isActive
    /\ 3 \notin DOMAIN characters

moveTaken ==
    /\ program = "presence"
    /\ last'.op = "move"
    /\ last'.id # subInfo.id
    /\ last'.id \in DOMAIN characters

\* C5 as stated: a position event more than 10 tiles away puts the character
\* on the target with no queued path; one at most 10 and more than 0 tiles
\* away gives it a non-empty queued path that ends at the target.
C5_TeleportThresholdAsStated ==
    [][moveTaken
        => LET id   == last'.id
               cell == last'.cell
               dist == Manhattan(characters[id].tile, cell)
               path == characters'[id].path
           IN  /\ dist > 10
                    => (characters'[id].tile = cell /\ path = <<>>)
               /\ (dist <= 10 /\ dist > 0)
                    => (path # <<>> /\ path[Len(path)] = cell)]_vars

\* C5, amended: the queued path is promised only when the target can be
\* reached from the character's tile.
C5_TeleportThreshold ==
    [][moveTaken
        => LET id   == last'.id
               cell == last'.cell
               dist == Manhattan(characters[id].tile, cell)
               path == characters'[id].path
           IN  /\ dist > 10
                    => (characters'[id].tile = cell /\ path = <<>>)
               /\ (dist <= 10 /\ dist > 0
                        /\ findPath(characters[id].tile, cell).found)
                    => (path # <<>> /\ path[Len(path)] = cell)]_vars

\* a position event exactly 10 tiles away has been taken: the character is
\* still on its tile and has a path to the target queued
C5_WalkAtThreshold ==
    /\ program = "presence"
    /\ last.op = "move"
    /\ last.cell = TenCell
    /\ last.id \in DOMAIN characters
    /\ characters[last.id].tile = SpawnCell
    /\ characters[last.id].path # <<>>
    /\ characters[last.id].path[Len(characters[last.id].path)] = TenCell

\* C6: two position events emitted one after the other are at least 200 ms
\* apart and carry different tiles, and the event just emitted carries the
\* tile the local character is on.
C6_RateLimited ==
    program = "presence"
        => /\ \A i \in 2..Len(emitted) :
                 /\ emitted[i].at - emitted[i - 1].at >= 200
                 /\ emitted[i].tile # emitted[i - 1].tile
           /\ last.op = "moveSent"
                 => /\ emitted[Len(emitted)].tile = characters[myInfo.id].tile
                    /\ outbox[1].tile = characters[myInfo.id].tile

\* a second position event has just been emitted, 200 ms after the first
C6_SecondEventAtInterval ==
    /\ program = "presence"
    /\ last.op = "moveSent"
    /\ Len(emitted) = 2
    /\ emitted[2].at - emitted[1].at = 200

\* C7: a status or seat event that repeats the event of the step before
\* leaves the engine and the player list as the first left them.
C7_Idempotence ==
    [][last'.again => (characters' = characters /\ players' = players)]_vars

\* a seat event about a tracked player has been applied twice in a row
C7_SeatEventRepeated ==
    /\ last.again
    /\ last.op = "playerSeatChanged"
    /\ last.id \in DOMAIN characters
    /\ characters[last.id].seatId = last.status

\* C8: after setStatus the local character exists and shows the status,
\* whether or not the connection is open and anything was sent.
C8_LocalStatusApplied ==
    (program \in {"presence", "ws"} /\ last.op = "setStatus")
        => /\ last.id \in DOMAIN characters
           /\ characters[last.id].isActive = statusToActive(last.status)
           /\ characters[last.id].currentTool = statusToTool(last.status)

\* setStatus("coding") has run on the WebSocket client while the socket was
\* closed: nothing was sent and the character is active
C8_AppliedWhileClosed ==
    /\ program = "ws"
    /\ last.op = "setStatus"
    /\ last.status = "coding"
    /\ sock = "null"
    /\ outbox = <<>>
    /\ characters[myPlayerId].isActive

\* the events that name a character
EntityOps == {"status", "move", "playerStatusChanged", "playerSeatChanged",
              "playerLeft"}

\* C9: a status, seat, position or leave event about an id the engine does
\* not hold leaves the engine's characters as they were and raises nothing.
C9_UnknownEntity ==
    [][(last'.op \in EntityOps /\ last'.id \notin DOMAIN characters)
        => (characters' = characters /\ ~thrown')]_vars

\* a position event about an id that is not tracked has been taken while
\* other characters were
C9_UnknownMoveTaken ==
    /\ program = "presence"
    /\ last.op = "move"
    /\ last.id # subInfo.id
    /\ last.id \notin DOMAIN characters
    /\ characters # EmptyMap


\* C11: a join that names a room the relay does not hold changes no room and
\* no membership and is answered with an error; the client that receives the
\* error shows it on the connecting screen and sends nothing again.
C11_RoomNotFound ==
    [][/\ (program = "relay" /\ last'.op = "joinRoom"
              /\ last'.room \notin DOMAIN rooms)
          => /\ rooms' = rooms
             /\ wsToRoom' = wsToRoom
             /\ outbox' = << [to |-> last'.ws,
                              msg |-> [NoMsg EXCEPT !.type = "error"]] >>
       /\ (program = "ws" /\ last'.op = "error")
          => /\ error' # Null
             /\ outbox' = <<>>
             /\ joinCheck' = joinCheck]_vars


\* capital letters and digits, less the characters easily mistaken for
\* one another
UnambiguousAlphabet ==
    { "A", "B", "C", "D", "E", "F", "G", "H", "I", "J", "K", "L", "M", "N",
      "O", "P", "Q", "R", "S", "T", "U", "V", "W", "X", "Y", "Z",
      "0", "1", "2", "3", "4", "5", "6", "7", "8", "9" } \ { "0", "O", "1", "I" }

wellFormedCode(c) ==
    /\ Len(c) = 6
    /\ \A i \in 1..Len(c) : c[i] \in UnambiguousAlphabet

\* C12: the id of a newly created room is a 6-character code over the
\* alphabet without 0/O/1/I and is the id of no room live at that moment,
\* when the relay creates the room and when the presence client does.
C12_RoomIdsUnique ==
    [][/\ (program = "relay" /\ last'.op = "createRoom")
          => \E c \in DOMAIN rooms' \ DOMAIN rooms :
                /\ wellFormedCode(c)
                /\ DOMAIN rooms' = DOMAIN rooms \cup {c}
       /\ (program = "presence" /\ last'.op = "createRoom")
          => /\ wellFormedCode(last'.room)
             /\ last'.room \notin DOMAIN liveChannels]_vars


\* the ids of a list are pairwise different
distinctIds(ids) ==
    \A i, j \in DOMAIN ids : i # j => ids[i] # ids[j]

\* C13: no two participants present in one room carry the same id, in a
\* room of the relay and on a channel of the presence-based client.
C13_IdsUniquePerRoom ==
    /\ \A r \in DOMAIN rooms :
          distinctIds([i \in DOMAIN rooms[r].players |->
                          rooms[r].players[i].info.id])
    /\ \A c \in DOMAIN liveChannels : distinctIds(liveChannels[c])


\* the relay has taken a join or create request that succeeds
joinSucceeded ==
    /\ program = "relay"
    /\ \/ last'.op = "createRoom"
       \/ last'.op = "joinRoom" /\ last'.room \in DOMAIN rooms

\* C14: a join request that succeeds is answered with a roomJoined whose
\* player list is the membership of the room at that moment, every member
\* once with its current status and seat, and whose playerId is the id just
\* assigned to the joiner.
C14_JoinReplyIsMembership ==
    [][joinSucceeded
        => LET ws      == last'.ws
               rid     == wsToRoom'[ws]
               members == getPlayerInfos(rooms'[rid])
               reply   == outbox'[1]
           IN  /\ outbox' # <<>>
               /\ reply.to = ws
               /\ reply.msg.type = "roomJoined"
               /\ reply.msg.roomId = rid
               /\ Len(reply.msg.players) = Len(members)
               /\ Range(reply.msg.players) = Range(members)
               /\ reply.msg.playerId = getPlayer(rooms'[rid], ws).info.id
               /\ \A r \in DOMAIN rooms :
                     \A i \in DOMAIN rooms[r].players :
                        r = rid => rooms[r].players[i].info.id
                                      # reply.msg.playerId]_vars


\* the number of steps of a shortest 4-connected walk from `from` to `to`
\* over walkable cells, computed by growing the set of cells within k steps;
\* -1 when there is no such walk
RECURSIVE stepsTo(_, _, _, _)
stepsTo(m, reached, to, k) ==
    IF to \in reached THEN k
    ELSE LET more == reached \cup
                     { n \in cellsOf(m) :
                         /\ walkableIn(m, n)
                         /\ \E c \in reached : Manhattan(c, n) = 1 }
         IN  IF more = reached THEN -1 ELSE stepsTo(m, more, to, k + 1)

distance(m, from, to) == stepsTo(m, {from}, to, 0)

\* C15: for every pair of walkable cells of one connected region, findPath
\* finds a path, and its length is the shortest 4-connected distance
C15_ShortestPath ==
    (/\ last.op = "findPath"
     /\ walkableIn(last.grid, last.from)
     /\ walkableIn(last.grid, last.cell)
     /\ distance(last.grid, last.from, last.cell) >= 0)
    => /\ last.found
       /\ Len(last.path) = distance(last.grid, last.from, last.cell)

\* a path that has to go around obstacles, longer than the straight distance
C15_DetourFound ==
    /\ last.op = "findPath"
    /\ last.grid.blocked # {}
    /\ walkableIn(last.grid, last.from)
    /\ walkableIn(last.grid, last.cell)
    /\ last.found
    /\ Len(last.path) > Manhattan(last.from, last.cell)
    /\ Len(last.path) >= 6


\* C16: findPath(A, A) is the empty path for every walkable A, and
\* findPath(A, B) is `none` for every B that no walk from A reaches
C16_SelfAndUnreachable ==
    last.op = "findPath"
    => /\ (last.from = last.cell /\ walkableIn(last.grid, last.from))
           => last.path = <<>>
       /\ distance(last.grid, last.from, last.cell) = -1
           => (~last.found /\ last.path = <<>>)

\* a walkable target in another region of the map, and no path to it
C16_OtherRegionNone ==
    /\ last.op = "findPath"
    /\ walkableIn(last.grid, last.from)
    /\ walkableIn(last.grid, last.cell)
    /\ last.from # last.cell
    /\ distance(last.grid, last.from, last.cell) = -1
    /\ ~last.found


noRepeats(q) == \A i, j \in DOMAIN q : i # j => q[i] # q[j]

\* C17: findPath returns on every grid and every (from, to), and its search
\* takes each cell off the queue at most once, so that the number of
\* dequeues is at most the number of cells
C17_EachCellDequeuedOnce ==
    last.op = "findPath"
    => /\ noRepeats(last.dequeued)
       /\ Len(last.dequeued) <= last.grid.cols * last.grid.rows
       /\ \A i \in DOMAIN last.dequeued :
             \/ last.dequeued[i] = last.from
             \/ walkableIn(last.grid, last.dequeued[i])

\* the search that has to visit the whole all-floor map before it ends
C17_WholeMapSearched ==
    /\ last.op = "findPath"
    /\ last.grid = OpenMap
    /\ last.found
    /\ Len(last.dequeued) = OpenSize * OpenSize


\* the cells a character is on and will step onto, in order
route(ch) == << ch.tile >> \o ch.path

\* C18: the path moveTo assigns is well-formed -- each cell is orthogonally
\* adjacent to the one before it, starting from the character's cell, each
\* is walkable and the last is the target -- and ticks walk it to the
\* target; on the 10x10 all-floor map, (0,0) to (0,9) is 9 steps long
C18_PathWellFormed ==
    (program = "pathfinder" /\ Walker \in DOMAIN characters)
    => LET ch == characters[Walker]
           r  == route(ch)
       IN  /\ \A k \in 1..Len(ch.path) :
                 /\ Manhattan(r[k], r[k + 1]) = 1
                 /\ walkableIn(last.grid, r[k + 1])
           /\ (last.found /\ last.from # last.cell)
                 => /\ r[Len(r)] = last.cell
                    /\ last.op = "findPath"
                          => (ch.tile = last.from /\ ch.path = last.path
                              /\ ch.path # <<>>)
           /\ (last.grid = OpenMap /\ last.from = <<0, 0>>
                                    /\ last.cell = <<0, 9>>)
                 => /\ Len(last.path) = 9
                    /\ ch.path = <<>> => ch.tile = <<0, 9>>

\* the character of the scenario has walked its 9 steps and stands on (0,9)
C18_ScenarioWalked ==
    /\ program = "pathfinder"
    /\ last.op = "tick"
    /\ last.grid = OpenMap
    /\ last.from = <<0, 0>>
    /\ last.cell = <<0, 9>>
    /\ Len(last.path) = 9
    /\ characters[Walker].path = <<>>
    /\ characters[Walker].tile = <<0, 9>>
    /\ characters[Walker].state = "idle"


\* the step hands id to addCharacter: the subscription callback adds the
\* local participant, a snapshot or a roomJoined list holds id, or a join
\* notification is about id
addsCharacter(id) ==
    \/ program = "presence" /\ last'.op = "subscribed" /\ last'.id = id
    \/ program = "presence" /\ last'.op = "sync" /\ id \in last'.ids
    \/ program = "ws" /\ last'.op = "roomJoined" /\ id \in last'.ids
    \/ program = "ws" /\ last'.op = "playerJoined" /\ last'.id = id

\* C19: adding a character whose id is already present changes nothing: the
\* character keeps its tile, path, status, seat and local flag, and the set
\* of characters gains no member
C19_AddPresentIsNoOp ==
    [][\A id \in DOMAIN characters :
          addsCharacter(id)
          => /\ id \in DOMAIN characters'
             /\ characters'[id] = characters[id]
             /\ last'.op \in {"subscribed", "playerJoined"}
                   => DOMAIN characters' = DOMAIN characters]_vars

\* a join notification about a participant that the roomJoined list had
\* already brought in
C19_JoinRepeated ==
    /\ program = "ws"
    /\ last.op = "playerJoined"
    /\ last.id \in DOMAIN characters
    /\ characters[last.id].isLocal
    /\ Cardinality({i \in DOMAIN players : players[i].id = last.id}) >= 2


\* the cells that 4-connected walks over walkable cells reach from `reached`
RECURSIVE regionOf(_, _)
regionOf(m, reached) ==
    LET more == reached \cup
                { n \in cellsOf(m) :
                    /\ walkableIn(m, n)
                    /\ \E c \in reached : Manhattan(c, n) = 1 }
    IN  IF more = reached THEN reached ELSE regionOf(m, more)

\* the part of the office that can be walked to from the spawn cell
OfficeRegion == regionOf(TileMap, {SpawnCell})

\* the move event of the step makes the handler call moveTo for a tracked
\* remote character, and no walk leads from its tile to the target
movesToUnreachable ==
    /\ program = "presence"
    /\ last'.op = "move"
    /\ last'.id \in DOMAIN characters
    /\ last'.id # subInfo.id
    /\ Manhattan(characters[last'.id].tile, last'.cell) \in 1..TELEPORT_DIST
    /\ characters[last'.id].tile \in OfficeRegion
    /\ last'.cell \notin OfficeRegion

\* C20: moveTo to a target that cannot be reached from the character's cell
\* changes nothing -- tile, queued path and state stay -- and raises no error
C20_UnreachableIsNoOp ==
    [][movesToUnreachable
        => /\ characters' = characters
           /\ ~thrown'
           /\ error' = Null
           /\ outbox' = <<>>]_vars

\* a walking character was told to go to the enclosed floor cell and walks on
C20_WalkerKeptItsPath ==
    /\ program = "presence"
    /\ last.op = "move"
    /\ last.cell = Isolated
    /\ isWalkable(Isolated)
    /\ last.id \in DOMAIN characters
    /\ last.id # subInfo.id
    /\ characters[last.id].tile \in OfficeRegion
    /\ Isolated \notin OfficeRegion
    /\ Manhattan(characters[last.id].tile, Isolated) \in 1..TELEPORT_DIST
    /\ characters[last.id].path # <<>>
    /\ characters[last.id].state = "walking"
    /\ ~thrown


\* the move event of the step makes the handler call teleportTo for a
\* tracked remote character
teleports ==
    /\ program = "presence"
    /\ last'.op = "move"
    /\ last'.id \in DOMAIN characters
    /\ last'.id # subInfo.id
    /\ Manhattan(characters[last'.id].tile, last'.cell) > TELEPORT_DIST

\* C21: teleportTo puts the character on the given tile with an empty
\* queued path, whatever was queued before, and the last teleport wins: had
\* any other teleport come first, the character would be the same
C21_TeleportLastWins ==
    [][teleports
        => LET id    == last'.id
               after == characters'[id]
           IN  /\ after.tile = last'.cell
               /\ after.path = <<>>
               /\ \A c \in Cells :
                     teleportToTile(teleportToTile(characters, id, c),
                                    id, last'.cell)[id] = after
               /\ \A j \in DOMAIN characters \ {id} :
                     characters'[j] = characters[j]]_vars

\* a character that was walking has been teleported: it stands on the
\* target, more than TELEPORT_DIST from where it was, and its path is gone
C21_WalkerTeleported ==
    /\ program = "presence"
    /\ last.op = "move"
    /\ last.id \in DOMAIN characters
    /\ last.id # subInfo.id
    /\ last.path # <<>>
    /\ Manhattan(last.from, last.cell) > TELEPORT_DIST
    /\ characters[last.id].tile = last.cell
    /\ characters[last.id].path = <<>>


\* C22: a walking character whose queued path runs out on a tick becomes
\* idle when it has no seat, sitting-active when it has one and its status
\* is coding or reading, sitting-idle when its status is idle or afk (the
\* activity flag is what setStatus made of the status, and nothing else
\* changes it); no character is walking with an empty queued path
C22_PathExhaustion ==
    [][program = "engine"
        => /\ last'.op = "tick"
                => \A i \in last'.ids :
                      (characters[i].state = "walking"
                          /\ characters'[i].path = <<>>)
                      => characters'[i].state =
                            IF characters[i].seatId = Null THEN "idle"
                            ELSE IF characters[i].isActive
                            THEN "sitting-active" ELSE "sitting-idle"
           /\ (last'.op = "setStatus" /\ last'.id \in DOMAIN characters)
                => /\ characters'[last'.id].isActive
                         = (last'.status \in {"coding", "reading"})
                   /\ characters'[last'.id].state \in
                         {"sitting-idle", "sitting-active"}
                         => characters'[last'.id].state =
                               IF last'.status \in {"coding", "reading"}
                               THEN "sitting-active" ELSE "sitting-idle"
           /\ last'.op # "setStatus"
                => \A i \in DOMAIN characters \cap DOMAIN characters' :
                      characters'[i].isActive = characters[i].isActive
           /\ \A i \in DOMAIN characters' \ DOMAIN characters :
                 ~characters'[i].isActive
           /\ \A i \in DOMAIN characters' :
                 ~(characters'[i].state = "walking"
                      /\ characters'[i].path = <<>>)]_vars

\* a reading character has walked to its chair and sits there, active
C22_ArrivedReading ==
    /\ program = "engine"
    /\ last.op = "tick"
    /\ 1 \in last.ids
    /\ characters[1].seatId = "desk-1"
    /\ characters[1].tile = ChairCell
    /\ characters[1].path = <<>>
    /\ characters[1].currentTool = "Read"
    /\ characters[1].state = "sitting-active"


C24_SeatReached ==
    (Walker \in DOMAIN characters /\ characters[Walker].seatId = "desk-1")
    ~> (/\ Walker \in DOMAIN characters
        /\ characters[Walker].tile = ChairCell
        /\ characters[Walker].path = <<>>
        /\ characters[Walker].state \in {"sitting-idle", "sitting-active"})

\* the character has walked from the spawn cell to the chair of the desk at
\* (3,3) and sits idle
C24_WalkedToChair ==
    /\ program = "engine"
    /\ last.op = "tick"
    /\ Walker \in last.ids
    /\ DeskCell = <<3, 3>>
    /\ characters[Walker].seatId = "desk-1"
    /\ characters[Walker].tile = <<3, 4>>
    /\ characters[Walker].path = <<>>
    /\ characters[Walker].state = "sitting-idle"


\* C25: after rebuildFromLayout the new tile map is in place and every cell
\* of every queued path is walkable in it
C25_PathsValidAfterRebuild ==
    [][(program = "engine" /\ last'.op = "rebuildFromLayout")
        => /\ tileMap' = last'.grid
           /\ DOMAIN characters' = DOMAIN characters
           /\ \A i \in DOMAIN characters' :
                 \A k \in DOMAIN characters'[i].path :
                    /\ characters'[i].path[k] \in cellsOf(tileMap')
                    /\ characters'[i].path[k] \notin tileMap'.blocked]_vars

\* a rebuild put a wall across a queued path, and the character has a new
\* path that goes through the door of the wall
C25_Repathed ==
    /\ program = "engine"
    /\ last.op = "rebuildFromLayout"
    /\ tileMap = DoorMap
    /\ Walker \in last.ids
    /\ characters[Walker].path # <<>>
    /\ <<2, EngineRows - 1>> \in Range(characters[Walker].path)


\* C27: a socket is in the player map of a room exactly when wsToRoom maps
\* it to that room, so a connection is a member of at most one room
C27_OneRoomPerConnection ==
    \A ws \in Sockets : \A r \in DOMAIN rooms :
       hasPlayer(rooms[r], ws) <=> (ws \in DOMAIN wsToRoom /\ wsToRoom[ws] = r)


\* C28: a room leaves the relay only when its cleanup timer fires on an
\* empty room; a join leaves no timer pending, and a timer is pending exactly
\* while the room is empty; a room that is empty is later deleted or joined
C28_RoomCleanup ==
    /\ [][\A id \in DOMAIN rooms :
             id \notin DOMAIN rooms'
                => /\ last'.op = "cleanup"
                   /\ last'.room = id
                   /\ isEmpty(rooms[id])
                   /\ rooms[id].cleanupTimer]_vars
    /\ [][(last'.op = "joinRoom" /\ last'.room \in DOMAIN rooms)
            => /\ last'.room \in DOMAIN rooms'
               /\ ~rooms'[last'.room].cleanupTimer
               /\ ~isEmpty(rooms'[last'.room])]_vars
    /\ [](\A id \in DOMAIN rooms : rooms[id].cleanupTimer <=> isEmpty(rooms[id]))
    /\ \A id \in RoomCodes :
          (id \in DOMAIN rooms /\ isEmpty(rooms[id]))
             ~> (id \notin DOMAIN rooms \/ ~isEmpty(rooms[id]))

\* the timer of an emptied room has fired and deleted it, while the other
\* room, emptied and joined again, is kept
C28_EmptyRoomDeleted ==
    /\ program = "relay"
    /\ last.op = "cleanup"
    /\ last.room \notin DOMAIN rooms
    /\ \E id \in DOMAIN rooms :
          /\ Len(rooms[id].players) = 1
          /\ rooms[id].players[1].info.id > 1
          /\ ~rooms[id].cleanupTimer


\* the connections a list of sends goes to, for the messages of `types`
sentTo(out, types) == SelectSeq(out, LAMBDA m : m.msg.type \in types)

\* every connection of `to` gets exactly one of the sends, and no other does
onceToEach(out, to) ==
    /\ {out[i].to : i \in DOMAIN out} = to
    /\ Len(out) = Cardinality(to)

\* the open connections wsToRoom places in room rid
connectionsOf(open, map, rid) ==
    {w \in open : w \in DOMAIN map /\ map[w] = rid}

Notifications ==
    {"playerJoined", "playerStatusChanged", "playerSeatChanged", "playerLeft"}

\* C29: a join, status or seat notification goes once to every other open
\* connection of the originator's room and to nobody else; a playerLeft
\* goes once to every remaining open connection of the room that was left
C29_FanOut ==
    [][program = "relay"
        => LET ws == last'.ws
               note == sentTo(outbox', Notifications)
               joined == last'.op = "joinRoom" /\ last'.room \in DOMAIN rooms
           IN  /\ last'.op = "joinRoom" /\ ~joined => note = <<>>
               /\ joined \/ last'.op \in {"createRoom", "setStatus",
                                           "reassignSeat"}
                     => onceToEach(note,
                           IF ws \in DOMAIN wsToRoom'
                           THEN connectionsOf(conns', wsToRoom',
                                              wsToRoom'[ws]) \ {ws}
                           ELSE {})
               /\ last'.op = "close"
                     => onceToEach(note,
                           IF ws \in DOMAIN wsToRoom
                           THEN connectionsOf(conns', wsToRoom', wsToRoom[ws])
                           ELSE {})
               /\ last'.op \in {"connection", "cleanup"} => note = <<>>]_vars


\* C30: every characterIndex a room stores is one of 0..5
C30_IndexInRange ==
    \A r \in DOMAIN rooms : \A i \in DOMAIN rooms[r].players :
       rooms[r].players[i].info.characterIndex \in 0..5


\* the local participant stands on a tile with nothing queued
atRest ==
    /\ program = "presence"
    /\ channel # NoRoom
    /\ myInfo # NoInfo
    /\ myInfo.id \in DOMAIN characters
    /\ characters[myInfo.id].path = <<>>

\* the participant rests, its tile is the one sent last, and a peer that
\* tracks it has handled every event
settled ==
    /\ atRest
    /\ emitted # <<>>
    /\ emitted[Len(emitted)].tile = characters[myInfo.id].tile
    /\ delivered = Len(emitted)
    /\ myInfo.id \in DOMAIN peerChars

\* C26: once the interval since the last event has passed, a participant at
\* rest has its tile sent; and once a peer that tracks it has handled the
\* events, the peer's copy comes to stand on that tile
C26_PositionConverges ==
    /\ (atRest /\ now - lastBroadcastTime >= POSITION_BROADCAST_INTERVAL_MS)
          ~> (~atRest \/ lastBroadcastPos = characters[myInfo.id].tile)
    /\ settled
          ~> (~settled
              \/ peerChars[myInfo.id].tile = characters[myInfo.id].tile)


-----------------------------------------------------------------------------
(* WsClient in detail.  The methods work on a record                        *)
(* c = [ws, sockets, pingTimer, otherPings, reconnectTimer,                 *)
(* otherReconnects, shouldReconnect, pendingMessages, out]; out is what the *)
(* call handed to WebSocket.send, as [to, msg].  A socket is its number in  *)
(* `sockets`; a timer is known by whether a field of the client holds it.   *)

clientState ==
    [ws |-> wsRef, sockets |-> sockets, pingTimer |-> pingTimer,
     otherPings |-> otherPings, reconnectTimer |-> reconnectTimer,
     otherReconnects |-> otherReconnects, shouldReconnect |-> shouldReconnect,
     pendingMessages |-> pendingMessages, out |-> <<>>]

\* get isConnected
isConnected(c) == c.ws # 0 /\ c.sockets[c.ws] = "open"

\* send(msg)
wsSend(c, msg) ==
    IF c.ws # 0 /\ c.sockets[c.ws] = "open"
    THEN [c EXCEPT !.out = Append(@, [to |-> c.ws, msg |-> msg])]
    ELSE c

\* cleanup(): clearInterval and clearTimeout end the timers the fields hold
cleanup(c) ==
    [c EXCEPT !.pingTimer = FALSE, !.reconnectTimer = FALSE, !.ws = 0]

\* this.reconnectTimer = setTimeout(...): a timeout the field held before
\* stays pending
scheduleReconnect(c) ==
    [c EXCEPT !.otherReconnects = IF c.reconnectTimer THEN @ + 1 ELSE @,
              !.reconnectTimer = TRUE]

\* a variant that never schedules a reconnect
doConnectOnce(c, throws) ==
    IF c.ws # 0 \/ throws THEN c
    ELSE [c EXCEPT !.sockets = Append(@, "connecting"),
                   !.ws = Len(c.sockets) + 1]

\* doConnect(); `throws` says whether the constructor throws
doConnect(c, throws) ==
    IF c.ws # 0 THEN c
    ELSE IF throws
    THEN IF c.shouldReconnect THEN scheduleReconnect(c) ELSE c
    ELSE [c EXCEPT !.sockets = Append(@, "connecting"),
                   !.ws = Len(c.sockets) + 1]

\* connect()
connect(c, throws) == doConnect([c EXCEPT !.shouldReconnect = TRUE], throws)

\* disconnect(): cleanup() has set this.ws to null when `if (this.ws)` is
\* evaluated
disconnect(c) ==
    LET c1 == cleanup([c EXCEPT !.shouldReconnect = FALSE])
    IN  IF c1.ws # 0
        THEN [c1 EXCEPT !.sockets[c1.ws] = "closing", !.ws = 0]
        ELSE c1

RECURSIVE sendAll(_, _)
\* for (const msg of this.pendingMessages) this.send(msg)
sendAll(c, msgs) ==
    IF msgs = <<>> THEN c ELSE sendAll(wsSend(c, Head(msgs)), Tail(msgs))

\* ws.onopen of socket s, whose readyState has become OPEN
onopen(c, s) ==
    LET c0 == [c EXCEPT !.sockets[s] = "open"]
        c1 == sendAll(c0, c0.pendingMessages)
    IN  [c1 EXCEPT !.pendingMessages = <<>>,
                   !.otherPings = IF c1.pingTimer THEN @ + 1 ELSE @,
                   !.pingTimer = TRUE]

\* ws.onclose of socket s, whose readyState has become CLOSED
onclose(c, s) ==
    LET c1 == cleanup([c EXCEPT !.sockets[s] = "closed"])
    IN  IF c1.shouldReconnect THEN scheduleReconnect(c1) ELSE c1

\* the callback of a reconnect timeout; `held` says whether it is the one
\* the field holds.  The callback sets the field to null in both cases.
reconnectFired(c, held, throws) ==
    LET c1 == IF held THEN [c EXCEPT !.reconnectTimer = FALSE]
              ELSE [c EXCEPT !.otherReconnects =
                                 IF c.reconnectTimer THEN @ ELSE @ - 1,
                             !.reconnectTimer = FALSE]
    IN  doConnect(c1, throws)

\* the callback of a ping interval
pingFired(c) == wsSend(c, "ping")

ClientMessages == {"setStatus", "reassignSeat"}

clientFrame ==
    UNCHANGED << program, tileMap, appVars, characters, hookVars,
                 presenceVars, loopVars, peerVars, extVars, sock, joinCheck,
                 relayVars, thrown, construction >>

\* the client after a call, within the bounds
clientBecomes(c) ==
    /\ Len(c.sockets) <= MaxSockets
    /\ c.otherPings <= MaxOthers
    /\ c.otherReconnects <= MaxOthers
    /\ wsRef' = c.ws
    /\ sockets' = c.sockets
    /\ pingTimer' = c.pingTimer
    /\ otherPings' = c.otherPings
    /\ reconnectTimer' = c.reconnectTimer
    /\ otherReconnects' = c.otherReconnects
    /\ shouldReconnect' = c.shouldReconnect
    /\ pendingMessages' = c.pendingMessages
    /\ outbox' = c.out

CConnect ==
    /\ program = "wsclient"
    /\ clientBecomes(connect(clientState, construction = "throws"))
    /\ last' = [NoLast EXCEPT !.op = "connect"]
    /\ UNCHANGED submitted
    /\ clientFrame

CDisconnect ==
    /\ program = "wsclient"
    /\ clientBecomes(disconnect(clientState))
    /\ last' = [NoLast EXCEPT !.op = "disconnect", !.id = wsRef]
    /\ UNCHANGED submitted
    /\ clientFrame

\* the browser reports that a connecting socket is open
COpen ==
    /\ program = "wsclient"
    /\ \E s \in DOMAIN sockets :
          /\ sockets[s] = "connecting"
          /\ clientBecomes(onopen(clientState, s))
          /\ last' = [NoLast EXCEPT !.op = "open", !.id = s]
          /\ submitted' = IF s = wsRef THEN <<>> ELSE submitted
    /\ clientFrame

\* the browser reports that a socket is closed
CClose ==
    /\ program = "wsclient"
    /\ \E s \in DOMAIN sockets :
          /\ sockets[s] # "closed"
          /\ clientBecomes(onclose(clientState, s))
          /\ last' = [NoLast EXCEPT !.op = "close", !.id = s]
    /\ UNCHANGED submitted
    /\ clientFrame

\* a pending reconnect timeout fires
CReconnect ==
    /\ program = "wsclient"
    /\ \E held \in BOOLEAN :
          /\ IF held THEN reconnectTimer ELSE otherReconnects > 0
          /\ clientBecomes(reconnectFired(clientState, held,
                                          construction = "throws"))
          /\ last' = [NoLast EXCEPT !.op = "reconnect", !.again = ~held]
    /\ UNCHANGED submitted
    /\ clientFrame

\* a live ping interval fires
CPing ==
    /\ program = "wsclient"
    /\ pingTimer \/ otherPings > 0
    /\ clientBecomes(pingFired(clientState))
    /\ last' = [NoLast EXCEPT !.op = "ping"]
    /\ UNCHANGED submitted
    /\ clientFrame

\* the hook calls send(msg)
CSend ==
    /\ program = "wsclient"
    /\ \E msg \in ClientMessages :
          /\ clientBecomes(wsSend(clientState, msg))
          /\ last' = [NoLast EXCEPT !.op = "send", !.status = msg]
          /\ IF isConnected(clientState) THEN UNCHANGED submitted
             ELSE /\ Len(submitted) < MaxPending
                  /\ submitted' = Append(submitted, msg)
    /\ clientFrame

\* ws.onmessage of an open socket: the frame goes to the message handler
CMessage ==
    /\ program = "wsclient"
    /\ \E s \in DOMAIN sockets :
          /\ sockets[s] = "open"
          /\ last' = [NoLast EXCEPT !.op = "message", !.id = s]
    /\ outbox' = <<>>
    /\ UNCHANGED << clientVars, shouldReconnect >>
    /\ clientFrame

ClientNext ==
    \/ CConnect
    \/ CDisconnect
    \/ COpen
    \/ CClose
    \/ CReconnect
    \/ CPing
    \/ CSend
    \/ CMessage

InitClient ==
    /\ program = "wsclient"
    /\ tileMap = TileMap
    /\ InitState

SpecClient == InitClient /\ [][ClientNext]_vars


(* C31: once disconnect() has returned, the socket the client held is being *)
(* closed or is closed, isConnected is false and neither a ping timer nor a *)
(* reconnect timer is live; and as long as connect() has not been called    *)
(* again (shouldReconnect is false), no inbound message reaches the message *)
(* handler and no reconnect attempt is made.                                *)
C31_DisconnectStops ==
    [][ /\ last'.op = "disconnect" =>
              /\ last'.id # 0 => sockets'[last'.id] \in {"closing", "closed"}
              /\ wsRef' = 0 \/ sockets'[wsRef'] # "open"
              /\ ~pingTimer' /\ otherPings' = 0
              /\ ~reconnectTimer' /\ otherReconnects' = 0
        /\ (program = "wsclient" /\ ~shouldReconnect /\ ~shouldReconnect') =>
              last'.op \notin {"message", "reconnect"} ]_vars


\* the sockets that are not closed, and the ping intervals that are live
openSockets == {s \in DOMAIN sockets : sockets[s] # "closed"}
livePings == (IF pingTimer THEN 1 ELSE 0) + otherPings

(* C32: the client has at most one socket that is not closed and at most    *)
(* one live ping interval, in every state; and the close event of a socket  *)
(* other than the one the client holds changes neither the reference to the *)
(* held socket nor its ping timer.                                          *)
C32_OneSocketOnePing ==
    /\ [](Cardinality(openSockets) <= 1 /\ livePings <= 1)
    /\ [][ (last'.op = "close" /\ wsRef # 0 /\ last'.id # wsRef) =>
              (wsRef' = wsRef /\ pingTimer' = pingTimer) ]_vars


\* the reconnect timeouts that are pending
pendingReconnects == (IF reconnectTimer THEN 1 ELSE 0) + otherReconnects

\* a step in which a socket closed, or in which a construction failed
connectionLost ==
    \/ last'.op = "close"
    \/ /\ last'.op \in {"connect", "reconnect"}
       /\ wsRef = 0
       /\ construction = "throws"

(* C33: a step in which the socket closes or the construction fails, with   *)
(* shouldReconnect true afterwards, leaves a reconnect timer scheduled and  *)
(* schedules no more than one; while the client wants a connection and      *)
(* holds no socket, a reconnect timer is pending (so the attempts go on     *)
(* until a socket is constructed or disconnect() is called); and at most    *)
(* one reconnect timer is pending in every state.                           *)
C33_Reconnection ==
    /\ [][ (connectionLost /\ shouldReconnect') =>
              (reconnectTimer' /\ pendingReconnects' <= pendingReconnects + 1)
        ]_vars
    /\ []((program = "wsclient" /\ shouldReconnect /\ wsRef = 0)
             => pendingReconnects >= 1)
    /\ [](pendingReconnects <= 1)


\* the messages of a sequence of sends, in order
sentMessages(out) == [i \in DOMAIN out |-> out[i].msg]

(* C34: a message given to send() while the client is not connected is      *)
(* appended to the queue; and when the socket the client holds opens, the   *)
(* messages submitted since the connection was last open are sent over it   *)
(* in the order of submission, and the queue is empty afterwards.           *)
C34_QueuedWhileDisconnected ==
    [][ /\ (last'.op = "send" /\ ~isConnected(clientState)) =>
              pendingMessages' = Append(pendingMessages, last'.status)
        /\ (last'.op = "open" /\ last'.id = wsRef) =>
              /\ sentMessages(outbox') = submitted
              /\ pendingMessages' = <<>> ]_vars


-----------------------------------------------------------------------------
(* Extension host: timerManager.ts and the file watching of extension.ts.   *)
(* The functions work on a record x of the maps they are passed, x.out      *)
(* being what they posted to the webview.  The callers of the exported      *)
(* functions (the agent manager, the transcript parser) are the             *)
(* environment: any exported function can be called at any time.  A         *)
(* timeout or interval is known by whether its map holds it.                *)

ToolIds == {"t1", "t2"}
ToolNames == {"Task", "Bash"}
permissionExemptTools == {"Task"}
FileNames == {"old.jsonl", "new.jsonl"}

extState ==
    [agents |-> agents,
     waitingTimers |-> waitingTimers, waitingOthers |-> waitingOthers,
     permissionTimers |-> permissionTimers,
     permissionOthers |-> permissionOthers,
     fileWatchers |-> fileWatchers, otherWatchers |-> otherWatchers,
     pollingTimers |-> pollingTimers, otherPollers |-> otherPollers,
     files |-> files, processed |-> processed,
     knownJsonlFiles |-> knownJsonlFiles,
     projectScanTimer |-> projectScanTimer, otherScans |-> otherScans,
     reassignments |-> reassignments, atFirstRun |-> atFirstRun,
     out |-> <<>>]

\* an AgentState as the agent manager creates it
newAgent(file) ==
    [jsonlFile |-> file, fileOffset |-> 0, lineBuffer |-> <<>>,
     activeToolIds |-> {}, activeToolStatuses |-> {}, activeToolNames |-> EmptyMap,
     activeSubagentToolIds |-> {}, isWaiting |-> FALSE,
     permissionSent |-> FALSE]

\* webview?.postMessage(msg)
post(x, type, id, status) ==
    [x EXCEPT !.out = Append(@, [type |-> type, id |-> id, status |-> status])]

\* cancelPermissionTimer(agentId, permissionTimers)
cancelPermissionTimer(x, id) ==
    IF id \in x.permissionTimers
    THEN [x EXCEPT !.permissionTimers = @ \ {id}]
    ELSE x

\* clearAgentActivity(agents.get(agentId), agentId, permissionTimers, webview)
clearAgentActivity(x, id) ==
    IF id \notin DOMAIN x.agents THEN x
    ELSE LET x1 == [x EXCEPT !.agents[id].activeToolIds = {},
                             !.agents[id].activeToolStatuses = {},
                             !.agents[id].activeToolNames = EmptyMap,
                             !.agents[id].activeSubagentToolIds = {},
                             !.agents[id].isWaiting = FALSE,
                             !.agents[id].permissionSent = FALSE]
             x2 == cancelPermissionTimer(x1, id)
             x3 == post(x2, "agentToolsClear", id, Null)
         IN  post(x3, "agentStatus", id, "active")

\* cancelWaitingTimer(agentId, waitingTimers)
cancelWaitingTimer(x, id) ==
    IF id \in x.waitingTimers
    THEN [x EXCEPT !.waitingTimers = @ \ {id}]
    ELSE x

\* waitingTimers.set(agentId, setTimeout(...)): a timeout the map held
\* before stays pending
setWaitingTimer(x, id) ==
    [x EXCEPT !.waitingOthers[id] = IF id \in x.waitingTimers THEN @ + 1 ELSE @,
              !.waitingTimers = @ \cup {id}]

\* a variant that does not cancel the pending timer
startWaitingTimerKeeping(x, id) == setWaitingTimer(x, id)

\* startWaitingTimer(agentId, delayMs, agents, waitingTimers, webview)
startWaitingTimer(x, id) == setWaitingTimer(cancelWaitingTimer(x, id), id)

\* the callback of a waiting timeout of agent id; `held` says whether it is
\* the one the map holds.  waitingTimers.delete removes the entry in both
\* cases.
waitingFired(x, id, held) ==
    LET x1 == IF held THEN [x EXCEPT !.waitingTimers = @ \ {id}]
              ELSE [x EXCEPT !.waitingOthers[id] =
                                 IF id \in x.waitingTimers THEN @ ELSE @ - 1,
                             !.waitingTimers = @ \ {id}]
        x2 == IF id \in DOMAIN x1.agents
              THEN [x1 EXCEPT !.agents[id].isWaiting = TRUE]
              ELSE x1
    IN  post(x2, "agentStatus", id, "waiting")

\* permissionTimers.set(agentId, setTimeout(...))
setPermissionTimer(x, id) ==
    [x EXCEPT !.permissionOthers[id] =
                  IF id \in x.permissionTimers THEN @ + 1 ELSE @,
              !.permissionTimers = @ \cup {id}]

\* startPermissionTimer(agentId, agents, permissionTimers,
\* permissionExemptTools, webview)
startPermissionTimer(x, id) ==
    setPermissionTimer(cancelPermissionTimer(x, id), id)

\* toolName || '' of agent.activeToolNames.get(toolId)
toolNameOf(agent, toolId) ==
    IF toolId \in DOMAIN agent.activeToolNames
    THEN agent.activeToolNames[toolId]
    ELSE ""

\* a variant that flags whenever a tool is active
hasAnyTool(agent) == agent.activeToolIds # {}

\* hasNonExempt of the permission callback
hasNonExempt(agent) ==
    \E toolId \in agent.activeToolIds :
        toolNameOf(agent, toolId) \notin permissionExemptTools

\* the callback of a permission timeout of agent id
permissionFired(x, id, held) ==
    LET x1 == IF held THEN [x EXCEPT !.permissionTimers = @ \ {id}]
              ELSE [x EXCEPT !.permissionOthers[id] =
                                 IF id \in x.permissionTimers THEN @ ELSE @ - 1,
                             !.permissionTimers = @ \ {id}]
    IN  IF id \notin DOMAIN x1.agents THEN x1
        ELSE IF hasNonExempt(x1.agents[id])
        THEN post([x1 EXCEPT !.agents[id].permissionSent = TRUE],
                  "agentToolPermission", id, Null)
        ELSE x1

extFrame ==
    UNCHANGED << program, tileMap, appVars, characters, hookVars,
                 presenceVars, loopVars, peerVars, clientVars, wsVars,
                 relayVars, thrown >>

\* the host after a call, within the bounds
extBecomes(x) ==
    /\ \A a \in AgentIds :
          /\ x.waitingOthers[a] <= MaxOrphans
          /\ x.permissionOthers[a] <= MaxOrphans
          /\ x.otherPollers[a] <= MaxOrphans
    /\ Cardinality(x.otherWatchers) <= MaxOrphans
    /\ x.otherScans <= MaxOrphans
    /\ agents' = x.agents
    /\ waitingTimers' = x.waitingTimers
    /\ waitingOthers' = x.waitingOthers
    /\ permissionTimers' = x.permissionTimers
    /\ permissionOthers' = x.permissionOthers
    /\ fileWatchers' = x.fileWatchers
    /\ otherWatchers' = x.otherWatchers
    /\ pollingTimers' = x.pollingTimers
    /\ otherPollers' = x.otherPollers
    /\ files' = x.files
    /\ processed' = x.processed
    /\ knownJsonlFiles' = x.knownJsonlFiles
    /\ projectScanTimer' = x.projectScanTimer
    /\ otherScans' = x.otherScans
    /\ reassignments' = x.reassignments
    /\ atFirstRun' = x.atFirstRun
    /\ outbox' = x.out

\* the agent manager registers an agent (agents.set), while fewer than n
\* are registered
XAddAgentUpTo(n) ==
    /\ program = "extension"
    /\ Cardinality(DOMAIN agents) < n
    /\ \E id \in AgentIds \ DOMAIN agents, f \in FileNames :
          /\ extBecomes([extState EXCEPT
                 !.agents = [a \in DOMAIN agents \cup {id} |->
                               IF a = id THEN newAgent(f) ELSE agents[a]],
                 !.processed[id] = <<>>])
          /\ last' = [NoLast EXCEPT !.op = "addAgent", !.id = id]
    /\ UNCHANGED activeAgentId
    /\ extFrame

XAddAgent == XAddAgentUpTo(MaxAgentId)

XAddSoleAgent == XAddAgentUpTo(1)

\* the agent manager removes an agent (agents.delete)
XRemoveAgent ==
    /\ program = "extension"
    /\ \E id \in DOMAIN agents :
          /\ extBecomes([extState EXCEPT
                 !.agents = [a \in DOMAIN agents \ {id} |-> agents[a]]])
          /\ last' = [NoLast EXCEPT !.op = "removeAgent", !.id = id]
    /\ UNCHANGED activeAgentId
    /\ extFrame

RECURSIVE activeToolCount(_)
\* the number of active tools of the agents in ids
activeToolCount(ids) ==
    IF ids = {} THEN 0
    ELSE LET a == CHOOSE a \in ids : TRUE
         IN  Cardinality(agents[a].activeToolIds) + activeToolCount(ids \ {a})

\* the transcript parser records the start of a tool; a tool_use without a
\* name leaves no entry in activeToolNames
XToolStart ==
    /\ program = "extension"
    /\ \E id \in DOMAIN agents, t \in ToolIds, n \in ToolNames \cup {""} :
          /\ t \notin agents[id].activeToolIds
          /\ activeToolCount(DOMAIN agents) < MaxActiveTools
          /\ extBecomes([extState EXCEPT
                 !.agents[id].activeToolIds = @ \cup {t},
                 !.agents[id].activeToolStatuses = @ \cup {t},
                 !.agents[id].activeToolNames =
                     IF n = "" THEN @
                     ELSE [k \in DOMAIN @ \cup {t} |->
                             IF k = t THEN n ELSE @[k]]])
          /\ last' = [NoLast EXCEPT !.op = "toolStart", !.id = id]
    /\ UNCHANGED activeAgentId
    /\ extFrame

\* the transcript parser records the end of a tool
XToolDone ==
    /\ program = "extension"
    /\ \E id \in DOMAIN agents :
        \E t \in agents[id].activeToolIds :
          /\ extBecomes([extState EXCEPT
                 !.agents[id].activeToolIds = @ \ {t},
                 !.agents[id].activeToolStatuses = @ \ {t},
                 !.agents[id].activeToolNames =
                     [k \in DOMAIN @ \ {t} |-> @[k]]])
          /\ last' = [NoLast EXCEPT !.op = "toolDone", !.id = id]
    /\ UNCHANGED activeAgentId
    /\ extFrame

XStartWaitingTimer ==
    /\ program = "extension"
    /\ \E id \in AgentIds :
          /\ extBecomes(startWaitingTimer(extState, id))
          /\ last' = [NoLast EXCEPT !.op = "startWaitingTimer", !.id = id]
    /\ UNCHANGED activeAgentId
    /\ extFrame

XCancelWaitingTimer ==
    /\ program = "extension"
    /\ \E id \in AgentIds :
          /\ extBecomes(cancelWaitingTimer(extState, id))
          /\ last' = [NoLast EXCEPT !.op = "cancelWaitingTimer", !.id = id]
    /\ UNCHANGED activeAgentId
    /\ extFrame

\* a pending waiting timeout fires
XWaitingFire ==
    /\ program = "extension"
    /\ \E id \in AgentIds, held \in BOOLEAN :
          /\ IF held THEN id \in waitingTimers ELSE waitingOthers[id] > 0
          /\ extBecomes(waitingFired(extState, id, held))
          /\ last' = [NoLast EXCEPT !.op = "waitingFired", !.id = id,
                                    !.again = ~held]
    /\ UNCHANGED activeAgentId
    /\ extFrame

XStartPermissionTimer ==
    /\ program = "extension"
    /\ \E id \in AgentIds :
          /\ extBecomes(startPermissionTimer(extState, id))
          /\ last' = [NoLast EXCEPT !.op = "startPermissionTimer", !.id = id]
    /\ UNCHANGED activeAgentId
    /\ extFrame

XCancelPermissionTimer ==
    /\ program = "extension"
    /\ \E id \in AgentIds :
          /\ extBecomes(cancelPermissionTimer(extState, id))
          /\ last' = [NoLast EXCEPT !.op = "cancelPermissionTimer", !.id = id]
    /\ UNCHANGED activeAgentId
    /\ extFrame

\* a pending permission timeout fires
XPermissionFire ==
    /\ program = "extension"
    /\ \E id \in AgentIds, held \in BOOLEAN :
          /\ IF held THEN id \in permissionTimers
             ELSE permissionOthers[id] > 0
          /\ extBecomes(permissionFired(extState, id, held))
          /\ last' = [NoLast EXCEPT !.op = "permissionFired", !.id = id,
                                    !.again = ~held]
    /\ UNCHANGED activeAgentId
    /\ extFrame

XClearAgentActivity ==
    /\ program = "extension"
    /\ \E id \in AgentIds :
          /\ extBecomes(clearAgentActivity(extState, id))
          /\ last' = [NoLast EXCEPT !.op = "clearAgentActivity", !.id = id]
    /\ UNCHANGED activeAgentId
    /\ extFrame

WaitingNext ==
    \/ XAddAgent
    \/ XRemoveAgent
    \/ XStartWaitingTimer
    \/ XCancelWaitingTimer
    \/ XWaitingFire
    \/ XClearAgentActivity

PermissionNext ==
    \/ XAddSoleAgent
    \/ XRemoveAgent
    \/ XToolStart
    \/ XToolDone
    \/ XStartWaitingTimer
    \/ XWaitingFire
    \/ XStartPermissionTimer
    \/ XCancelPermissionTimer
    \/ XPermissionFire
    \/ XClearAgentActivity

InitExt ==
    /\ program = "extension"
    /\ tileMap = TileMap
    /\ InitState

SpecWaiting == InitExt /\ [][WaitingNext]_vars

SpecPermission == InitExt /\ [][PermissionNext]_vars


\* the timeouts of agent a that are pending, given the map's entries and the
\* timeouts no map holds
pendingOf(entries, others, a) == (IF a \in entries THEN 1 ELSE 0) + others[a]

pendingWaiting(a) == pendingOf(waitingTimers, waitingOthers, a)

(* C35: every agent has at most one pending waiting timer; after            *)
(* startWaitingTimer exactly one is pending for the agent, held by the map  *)
(* (a timer that was pending is replaced); after cancelWaitingTimer none is *)
(* pending, so that a cancelled or replaced timer cannot fire; and the step *)
(* in which a waiting timer fires removes the map entry, posts the status   *)
(* 'waiting' and leaves the agent, if it is registered, with isWaiting      *)
(* true.  No other step posts 'waiting' or sets isWaiting.                  *)
C35_WaitingTimer ==
    /\ [](\A a \in AgentIds : pendingWaiting(a) <= 1)
    /\ [][
          /\ last'.op = "startWaitingTimer" =>
                /\ last'.id \in waitingTimers'
                /\ pendingOf(waitingTimers', waitingOthers', last'.id) = 1
          /\ last'.op = "cancelWaitingTimer" =>
                pendingOf(waitingTimers', waitingOthers', last'.id) = 0
          /\ last'.op = "waitingFired" =>
                /\ pendingOf(waitingTimers', waitingOthers', last'.id) = 0
                /\ last'.id \notin waitingTimers'
                /\ outbox' = << [type |-> "agentStatus", id |-> last'.id,
                                 status |-> "waiting"] >>
                /\ last'.id \in DOMAIN agents' =>
                      agents'[last'.id].isWaiting
          /\ (program = "extension" /\ last'.op # "waitingFired") =>
                /\ \A i \in DOMAIN outbox' : outbox'[i].status # "waiting"
                /\ \A a \in DOMAIN agents \cap DOMAIN agents' :
                      agents'[a].isWaiting => agents[a].isWaiting
       ]_vars

\* a waiting timer has fired for a registered agent while the timer of
\* another agent is still pending
C35_TimerFired ==
    /\ last.op = "waitingFired"
    /\ last.id \in DOMAIN agents
    /\ agents[last.id].isWaiting
    /\ \E a \in AgentIds \ {last.id} : a \in waitingTimers


\* agent a is registered and has an active tool whose name is not exempt
needsPermission(a) ==
    /\ a \in DOMAIN agents
    /\ \E t \in agents[a].activeToolIds :
          toolNameOf(agents[a], t) \notin permissionExemptTools

(* C36: the step in which a permission timer fires sets permissionSent and  *)
(* posts agentToolPermission if the agent is registered and has, at that    *)
(* moment, an active tool whose name is not permission-exempt, and          *)
(* otherwise posts nothing and leaves the agent as it was; and after        *)
(* clearAgentActivity a registered agent has no active tools, isWaiting and *)
(* permissionSent false, and no pending permission timer.                   *)
C36_PermissionTimer ==
    [][
      /\ last'.op = "permissionFired" =>
            IF needsPermission(last'.id)
            THEN /\ agents'[last'.id].permissionSent
                 /\ outbox' = << [type |-> "agentToolPermission",
                                  id |-> last'.id, status |-> Null] >>
            ELSE /\ agents' = agents
                 /\ outbox' = <<>>
      /\ (last'.op = "clearAgentActivity" /\ last'.id \in DOMAIN agents) =>
            /\ agents'[last'.id].activeToolIds = {}
            /\ agents'[last'.id].activeToolNames = EmptyMap
            /\ ~agents'[last'.id].isWaiting
            /\ ~agents'[last'.id].permissionSent
            /\ pendingOf(permissionTimers', permissionOthers', last'.id) = 0
    ]_vars

\* a permission timer has fired for an agent that has an exempt and a
\* non-exempt tool active, and has flagged it
C36_Flagged ==
    /\ last.op = "permissionFired"
    /\ last.id \in DOMAIN agents
    /\ agents[last.id].permissionSent
    /\ \E t \in agents[last.id].activeToolIds :
          toolNameOf(agents[last.id], t) \in permissionExemptTools
    /\ outbox # <<>>


-----------------------------------------------------------------------------
(* Transcript reading.  A file is a sequence of bytes; the text is UTF-8.   *)
(* The bytes are the ASCII characters "a", " " and "\n" and the two bytes   *)
(* "C3", "A9" of one two-byte character, written "eacute" once decoded;     *)
(* "FFFD" is the replacement character a decoder puts for a byte sequence   *)
(* that is not a character.                                                 *)

Bytes == {"a", " ", "\n", "C3", "A9"}

RECURSIVE decode(_)
\* buf.toString('utf-8')
decode(buf) ==
    IF buf = <<>> THEN <<>>
    ELSE IF Head(buf) = "C3"
    THEN IF Len(buf) >= 2 /\ buf[2] = "A9"
         THEN <<"eacute">> \o decode(SubSeq(buf, 3, Len(buf)))
         ELSE <<"FFFD">> \o decode(Tail(buf))
    ELSE IF Head(buf) = "A9"
    THEN <<"FFFD">> \o decode(Tail(buf))
    ELSE <<Head(buf)>> \o decode(Tail(buf))

RECURSIVE splitFrom(_, _, _)
\* text.split('\n'), the pieces found so far in acc and the piece being
\* read in cur
splitFrom(text, cur, acc) ==
    IF text = <<>> THEN Append(acc, cur)
    ELSE IF Head(text) = "\n"
    THEN splitFrom(Tail(text), <<>>, Append(acc, cur))
    ELSE splitFrom(Tail(text), Append(cur, Head(text)), acc)

split(text) == splitFrom(text, <<>>, <<>>)

\* !line.trim()
isBlank(line) == \A i \in DOMAIN line : line[i] = " "

\* the effects a transcript line can have in the parser
Effects == {"none", "toolUse"}

\* processTranscriptLine(agentId, line, agents, waitingTimers,
\* permissionTimers, webview): the call is logged with what the callee finds
\* on entry; a line that reports a tool_use records the tool and starts the
\* permission timer
processTranscriptLine(x, id, line, effect) ==
    LET seen == [line |-> line,
                 timer |-> id \in x.permissionTimers,
                 sent |-> x.agents[id].permissionSent,
                 tools |-> x.agents[id].activeToolIds,
                 posted |-> Len(x.out)]
        x1 == [x EXCEPT !.processed[id] = Append(@, seen)]
    IN  IF effect = "toolUse"
        THEN startPermissionTimer(
                 [x1 EXCEPT !.agents[id].activeToolIds = @ \cup {"t1"},
                            !.agents[id].activeToolStatuses = @ \cup {"t1"},
                            !.agents[id].activeToolNames =
                                [k \in DOMAIN @ \cup {"t1"} |->
                                   IF k = "t1" THEN "Bash" ELSE @[k]]], id)
        ELSE x1

RECURSIVE processLines(_, _, _, _)
\* for (const line of lines) { if (!line.trim()) continue; ... }
processLines(x, id, lines, effects) ==
    IF lines = <<>> THEN x
    ELSE IF isBlank(Head(lines)) THEN processLines(x, id, Tail(lines), effects)
    ELSE processLines(processTranscriptLine(x, id, Head(lines), Head(effects)),
                      id, Tail(lines), Tail(effects))

\* a variant that leaves the permission state alone
keepStuck(x, id) == x

\* the block under `if (hasLines)`
unstick(x, id) ==
    LET x1 == cancelPermissionTimer(x, id)
    IN  IF x1.agents[id].permissionSent
        THEN post([x1 EXCEPT !.agents[id].permissionSent = FALSE],
                  "agentToolPermissionClear", id, Null)
        ELSE x1

\* readNewLines(agentId, agents, waitingTimers, permissionTimers, webview);
\* statSync throws for a file that does not exist, and the catch returns
readNewLines(x, id, effects) ==
    IF id \notin DOMAIN x.agents THEN x
    ELSE LET agent == x.agents[id] IN
    IF agent.jsonlFile \notin DOMAIN x.files THEN x
    ELSE LET size == Len(x.files[agent.jsonlFile]) IN
    IF size <= agent.fileOffset THEN x
    ELSE LET buf == SubSeq(x.files[agent.jsonlFile], agent.fileOffset + 1, size)
             text == agent.lineBuffer \o decode(buf)
             pieces == split(text)
             lines == SubSeq(pieces, 1, Len(pieces) - 1)
             x1 == [x EXCEPT !.agents[id].fileOffset = size,
                             !.agents[id].lineBuffer = pieces[Len(pieces)]]
             hasLines == \E i \in DOMAIN lines : ~isBlank(lines[i])
             x2 == IF hasLines THEN unstick(x1, id) ELSE x1
         IN  processLines(x2, id, lines, effects)

\* the bytes that can follow the bytes of a file: the file is UTF-8 text
\* that may end inside a character
nextBytes(bytes) ==
    IF bytes # <<>> /\ bytes[Len(bytes)] = "C3" THEN {"A9"}
    ELSE Bytes \ {"A9"}

\* the process of a registered agent appends one of the chunks to the
\* agent's transcript file, creating it if it does not exist, while the file
\* has fewer than n bytes
XAppendUpTo(chunks, n) ==
    /\ program = "extension"
    /\ \E f \in {agents[a].jsonlFile : a \in DOMAIN agents} :
        LET old == IF f \in DOMAIN files THEN files[f] ELSE <<>> IN
        /\ Len(old) < n
        /\ \E chunk \in chunks :
              /\ Head(chunk) \in nextBytes(old)
              /\ files' = [g \in DOMAIN files \cup {f} |->
                             IF g = f THEN old \o chunk ELSE files[g]]
              /\ last' = [NoLast EXCEPT !.op = "append", !.status = f]
    /\ outbox' = <<>>
    /\ UNCHANGED << agents, timerVars, watchVars, processed, scanVars >>
    /\ extFrame

XAppend == XAppendUpTo({<<b>> : b \in Bytes}, MaxFileLen)

\* a watcher or a polling interval calls readNewLines
XRead ==
    /\ program = "extension"
    /\ \E id \in AgentIds, effects \in [1..2 -> Effects] :
          /\ extBecomes(readNewLines(extState, id, effects))
          /\ last' = [NoLast EXCEPT !.op = "readNewLines", !.id = id]
    /\ UNCHANGED activeAgentId
    /\ extFrame

ReadNext ==
    \/ XAddSoleAgent
    \/ XAppend
    \/ XRead
    \/ XPermissionFire

SpecRead == InitExt /\ [][ReadNext]_vars


\* the bytes of the transcript file of agent a, and those read so far
fileOf(a) ==
    IF agents[a].jsonlFile \in DOMAIN files THEN files[agents[a].jsonlFile]
    ELSE <<>>
readSoFar(a) == SubSeq(fileOf(a), 1, agents[a].fileOffset)

\* the complete lines of a text that are not blank, in order, and the
\* incomplete line at its end
notBlank(line) == ~isBlank(line)
completeLines(text) ==
    SelectSeq(SubSeq(split(text), 1, Len(split(text)) - 1), notBlank)
trailingLine(text) == split(text)[Len(split(text))]

\* the lines given to processTranscriptLine for agent a, in order
linesProcessed(a) == [i \in DOMAIN processed[a] |-> processed[a][i].line]

(* C37: however the growth of the transcript file is split across the       *)
(* calls of readNewLines, the lines given to processTranscriptLine are the  *)
(* complete non-blank lines of the part of the file read so far, each once  *)
(* and in file order; lineBuffer is the incomplete line at the end of that  *)
(* part; and fileOffset never exceeds the file size and is not decreased by *)
(* readNewLines.                                                            *)
C37_IncrementalReading ==
    /\ [](\A a \in DOMAIN agents :
            /\ agents[a].fileOffset <= Len(fileOf(a))
            /\ linesProcessed(a) = completeLines(decode(readSoFar(a)))
            /\ agents[a].lineBuffer = trailingLine(decode(readSoFar(a))))
    /\ [][ \A a \in DOMAIN agents \cap DOMAIN agents' :
              last'.op = "readNewLines" =>
                  agents'[a].fileOffset >= agents[a].fileOffset ]_vars


\* what the first processTranscriptLine call of the step found on entry
firstSeen(a) == processed'[a][Len(processed[a]) + 1]

(* C38: in a step of readNewLines that gives at least one line to           *)
(* processTranscriptLine, the first of those calls finds no pending         *)
(* permission timer for the agent and permissionSent false; and if          *)
(* permissionSent was true before the step, agentToolPermissionClear is the *)
(* first message posted and is posted before that call, while otherwise     *)
(* nothing is posted before it.                                             *)
C38_NewDataUnsticks ==
    [][ (/\ last'.op = "readNewLines"
         /\ last'.id \in DOMAIN agents
         /\ Len(processed'[last'.id]) > Len(processed[last'.id])) =>
            /\ ~firstSeen(last'.id).timer
            /\ ~firstSeen(last'.id).sent
            /\ IF agents[last'.id].permissionSent
               THEN /\ firstSeen(last'.id).posted = 1
                    /\ outbox'[1] = [type |-> "agentToolPermissionClear",
                                     id |-> last'.id, status |-> Null]
               ELSE firstSeen(last'.id).posted = 0 ]_vars

\* a read has cleared the permission flag and then processed a line that
\* started the permission timer again
C38_Unstuck ==
    /\ last.op = "readNewLines"
    /\ outbox # <<>>
    /\ outbox[1].type = "agentToolPermissionClear"
    /\ last.id \in permissionTimers
    /\ ~agents[last.id].permissionSent


-----------------------------------------------------------------------------
(* File watching.  A watcher is known by the agent id its callback closed   *)
(* over and the file it watches; a polling interval by the agent id.  An    *)
(* interval that cleared itself stays in pollingTimers, no longer live.     *)

\* removing key k from a map
without(map, k) == [j \in DOMAIN map \ {k} |-> map[j]]

\* setting key k of a map
with(map, k, v) == [j \in DOMAIN map \cup {k} |-> IF j = k THEN v ELSE map[j]]

\* startFileWatching(agentId, filePath, ...); fs.watch throws for a file
\* that does not exist.  What the maps held before stays open and live.
startFileWatching(x, id, filePath) ==
    LET x1 == IF filePath \notin DOMAIN x.files THEN x
              ELSE [x EXCEPT
                      !.otherWatchers =
                          IF id \in DOMAIN x.fileWatchers
                          THEN @ \cup {[agent |-> id,
                                        file |-> x.fileWatchers[id]]}
                          ELSE @,
                      !.fileWatchers = with(@, id, filePath)]
    IN  [x1 EXCEPT
           !.otherPollers[id] =
               IF id \in DOMAIN x1.pollingTimers /\ x1.pollingTimers[id]
               THEN @ + 1 ELSE @,
           !.pollingTimers = with(@, id, TRUE)]

\* the callback of a polling interval of agent id; `held` says whether it
\* is the one the map holds
pollTick(x, id, held, effects) ==
    IF id \notin DOMAIN x.agents
    THEN IF held THEN [x EXCEPT !.pollingTimers[id] = FALSE]
         ELSE [x EXCEPT !.otherPollers[id] = @ - 1]
    ELSE readNewLines(x, id, effects)

\* a variant that goes on watching the old file
keepWatching(x, id) == x

\* the block `Stop old file watching` of reassignAgentToFile
stopWatching(x, id) ==
    [x EXCEPT !.fileWatchers = without(@, id),
              !.pollingTimers = without(@, id)]

\* reassignAgentToFile(agentId, newFilePath, ...)
reassignAgentToFile(x, id, newFilePath, effects) ==
    IF id \notin DOMAIN x.agents THEN x
    ELSE LET x1 == stopWatching(x, id)
             x2 == cancelPermissionTimer(cancelWaitingTimer(x1, id), id)
             x3 == clearAgentActivity(x2, id)
             x4 == [x3 EXCEPT !.agents[id].jsonlFile = newFilePath,
                              !.agents[id].fileOffset = 0,
                              !.agents[id].lineBuffer = <<>>,
                              !.processed[id] = <<>>]
             x5 == startFileWatching(x4, id, newFilePath)
         IN  readNewLines(x5, id, effects)

\* the agent manager starts watching the transcript of a registered agent
XStartFileWatching ==
    /\ program = "extension"
    /\ \E id \in DOMAIN agents :
          /\ extBecomes(startFileWatching(extState, id, agents[id].jsonlFile))
          /\ last' = [NoLast EXCEPT !.op = "startFileWatching", !.id = id]
    /\ UNCHANGED activeAgentId
    /\ extFrame

XReassign ==
    /\ program = "extension"
    /\ \E id \in AgentIds, f \in FileNames, effects \in [1..2 -> Effects] :
          /\ extBecomes(reassignAgentToFile(extState, id, f, effects))
          /\ last' = [NoLast EXCEPT !.op = "reassignAgentToFile", !.id = id,
                                    !.status = f]
    /\ UNCHANGED activeAgentId
    /\ extFrame

\* an open watcher reports a change of its file
XWatchFire ==
    /\ program = "extension"
    /\ \E id \in AgentIds, effects \in [1..2 -> Effects] :
          /\ \/ id \in DOMAIN fileWatchers
             \/ \E w \in otherWatchers : w.agent = id
          /\ extBecomes(readNewLines(extState, id, effects))
          /\ last' = [NoLast EXCEPT !.op = "watchFired", !.id = id]
    /\ UNCHANGED activeAgentId
    /\ extFrame

\* a live polling interval ticks
XPollTick ==
    /\ program = "extension"
    /\ \E id \in AgentIds, held \in BOOLEAN, effects \in [1..2 -> Effects] :
          /\ IF held THEN id \in DOMAIN pollingTimers /\ pollingTimers[id]
             ELSE otherPollers[id] > 0
          /\ extBecomes(pollTick(extState, id, held, effects))
          /\ last' = [NoLast EXCEPT !.op = "pollTick", !.id = id,
                                    !.again = ~held]
    /\ UNCHANGED activeAgentId
    /\ extFrame

XAppendLine == XAppendUpTo({<<"a", "\n">>}, MaxLineLen)

WatchNext ==
    \/ XAddSoleAgent
    \/ XAppendLine
    \/ XStartFileWatching
    \/ XReassign
    \/ XWatchFire
    \/ XPollTick
    \/ XPermissionFire

SpecWatch == InitExt /\ [][WatchNext]_vars


\* the open watchers and the live polling intervals of agent a, given the
\* maps and what no map holds
liveWatchers(map, others, a) ==
    (IF a \in DOMAIN map THEN 1 ELSE 0)
        + Cardinality({w \in others : w.agent = a})
livePollers(map, others, a) ==
    (IF a \in DOMAIN map /\ map[a] THEN 1 ELSE 0) + others[a]

(* C39: every registered agent has at most one open file watcher and at    *)
(* most one live polling interval, and the watcher watches the agent's      *)
(* current jsonlFile; a step of reassignAgentToFile for a registered agent  *)
(* leaves the agent on the new file, read from offset 0 with an empty       *)
(* lineBuffer, and the first line it processes finds the activity cleared   *)
(* (no active tools, no permission timer, permissionSent false, the clear   *)
(* messages posted); and the tick of a polling interval whose agent is gone *)
(* ends that interval.                                                      *)
C39_WatcherBookkeeping ==
    /\ [](\A a \in DOMAIN agents :
            /\ liveWatchers(fileWatchers, otherWatchers, a) <= 1
            /\ livePollers(pollingTimers, otherPollers, a) <= 1
            /\ \A w \in otherWatchers : w.agent = a =>
                   w.file = agents[a].jsonlFile
            /\ a \in DOMAIN fileWatchers =>
                   fileWatchers[a] = agents[a].jsonlFile)
    /\ [][
          /\ (last'.op = "reassignAgentToFile" /\ last'.id \in DOMAIN agents) =>
                /\ agents'[last'.id].jsonlFile = last'.status
                /\ agents'[last'.id].fileOffset =
                      (IF last'.status \in DOMAIN files
                       THEN Len(files[last'.status]) ELSE 0)
                /\ [i \in DOMAIN processed'[last'.id] |->
                        processed'[last'.id][i].line]
                      = (IF last'.status \in DOMAIN files
                         THEN completeLines(decode(files[last'.status]))
                         ELSE <<>>)
                /\ processed'[last'.id] # <<>> =>
                      /\ processed'[last'.id][1].tools = {}
                      /\ ~processed'[last'.id][1].timer
                      /\ ~processed'[last'.id][1].sent
                      /\ processed'[last'.id][1].posted = 2
          /\ (last'.op = "pollTick" /\ last'.id \notin DOMAIN agents) =>
                livePollers(pollingTimers', otherPollers', last'.id)
                    = livePollers(pollingTimers, otherPollers, last'.id) - 1
       ]_vars


-----------------------------------------------------------------------------
(* Project scan.  The project directory is the map `files`; a directory     *)
(* that does not exist yet has no files.                                    *)

\* projectScanTimerRef.current = setInterval(...)
setScanTimer(x) ==
    [x EXCEPT !.otherScans = IF x.projectScanTimer THEN @ + 1 ELSE @,
              !.projectScanTimer = TRUE]

\* a variant that does not seed knownJsonlFiles
ensureWithoutSeed(x) ==
    IF x.projectScanTimer THEN x ELSE setScanTimer(x)

\* ensureProjectScan(projectDir, knownJsonlFiles, projectScanTimerRef, ...)
ensureProjectScan(x) ==
    IF x.projectScanTimer THEN x
    ELSE setScanTimer([x EXCEPT !.knownJsonlFiles = @ \cup DOMAIN x.files])

RECURSIVE scanLoop(_, _, _)
\* for (const file of files) { if (!knownJsonlFiles.has(file)) ... }, the
\* files in the order readdirSync returned them
scanLoop(x, order, active) ==
    IF order = <<>> THEN x
    ELSE LET file == Head(order) IN
         IF file \in x.knownJsonlFiles THEN scanLoop(x, Tail(order), active)
         ELSE LET x1 == [x EXCEPT !.knownJsonlFiles = @ \cup {file}]
                  x2 == IF active # 0
                        THEN reassignAgentToFile(
                                 [x1 EXCEPT !.reassignments =
                                     Append(@, [file |-> file,
                                                agent |-> active])],
                                 active, file, <<"none", "none">>)
                        ELSE x1
              IN  scanLoop(x2, Tail(order), active)

\* scanForNewJsonlFiles(projectDir, knownJsonlFiles, activeAgentIdRef, ...)
scanForNewJsonlFiles(x, order, active) == scanLoop(x, order, active)

\* the orders in which readdirSync can return the files
readdirOrders(dir) ==
    {o \in [1..Cardinality(dir) -> dir] :
        \A i, j \in DOMAIN o : i # j => o[i] # o[j]}

\* the agent manager calls ensureProjectScan
XEnsureProjectScan ==
    /\ program = "extension"
    /\ extBecomes([ensureProjectScan(extState) EXCEPT
           !.atFirstRun = IF projectScanTimer THEN @ ELSE DOMAIN files])
    /\ last' = [NoLast EXCEPT !.op = "ensureProjectScan"]
    /\ UNCHANGED activeAgentId
    /\ extFrame

\* the scan interval ticks
XScanTick ==
    /\ program = "extension"
    /\ projectScanTimer \/ otherScans > 0
    /\ \E order \in readdirOrders(DOMAIN files) :
          extBecomes(scanForNewJsonlFiles(extState, order, activeAgentId))
    /\ last' = [NoLast EXCEPT !.op = "scan", !.id = activeAgentId,
                              !.ids = DOMAIN files \ knownJsonlFiles]
    /\ UNCHANGED activeAgentId
    /\ extFrame

\* a terminal gets or loses the focus: activeAgentIdRef.current changes
XSetActive ==
    /\ program = "extension"
    /\ \E id \in {0} \cup DOMAIN agents :
          /\ id # activeAgentId
          /\ activeAgentId' = id
          /\ last' = [NoLast EXCEPT !.op = "setActive", !.id = id]
    /\ outbox' = <<>>
    /\ UNCHANGED << agents, timerVars, watchVars, files, processed,
                    knownJsonlFiles, projectScanTimer, otherScans,
                    reassignments, atFirstRun >>
    /\ extFrame

\* a transcript file appears in the project directory
XCreateFile ==
    /\ program = "extension"
    /\ \E f \in FileNames \ DOMAIN files :
          /\ files' = with(files, f, <<>>)
          /\ last' = [NoLast EXCEPT !.op = "createFile", !.status = f]
    /\ outbox' = <<>>
    /\ UNCHANGED << agents, timerVars, watchVars, processed, scanVars >>
    /\ extFrame

ScanNext ==
    \/ XAddAgent
    \/ XSetActive
    \/ XCreateFile
    \/ XEnsureProjectScan
    \/ XScanTick

SpecScan == InitExt /\ [][ScanNext]_vars


\* the reassignments a step has added
addedReassignments ==
    SubSeq(reassignments', Len(reassignments) + 1, Len(reassignments'))

(* C40: at most one scan interval is live, however often ensureProjectScan  *)
(* is called; no file that existed when ensureProjectScan first ran is ever *)
(* the cause of a reassignment; no file causes more than one; a scan that   *)
(* sees new files reassigns each of them once, to the agent active at that  *)
(* scan, and reassigns nothing if no agent is active; and no other step     *)
(* reassigns.                                                               *)
C40_ProjectScan ==
    /\ []((IF projectScanTimer THEN 1 ELSE 0) + otherScans <= 1)
    /\ [](\A i \in DOMAIN reassignments :
            /\ reassignments[i].file \notin atFirstRun
            /\ \A j \in DOMAIN reassignments :
                  i # j => reassignments[i].file # reassignments[j].file)
    /\ [][ IF last'.op = "scan"
           THEN /\ {addedReassignments[i] : i \in DOMAIN addedReassignments}
                     = (IF activeAgentId = 0 THEN {}
                        ELSE {[file |-> f, agent |-> activeAgentId] :
                                f \in DOMAIN files \ knownJsonlFiles})
                /\ DOMAIN files \subseteq knownJsonlFiles'
                /\ (activeAgentId \in DOMAIN agents
                      /\ DOMAIN files \ knownJsonlFiles # {}) =>
                       agents'[activeAgentId].jsonlFile
                           \in DOMAIN files \ knownJsonlFiles
           ELSE reassignments' = reassignments ]_vars

\* with two agents registered and a file that existed at the first run, a
\* scan has reassigned the second agent to a file that appeared later
C40_Reassigned ==
    /\ last.op = "scan"
    /\ atFirstRun # {}
    /\ reassignments = << [file |-> "new.jsonl", agent |-> 2] >>
    /\ DOMAIN agents = {1, 2}
    /\ agents[2].jsonlFile = "new.jsonl"
    /\ agents[1].jsonlFile = "new.jsonl"

=============================================================================
